---------------------------- MODULE Spec2Model ----------------------------
(***************************************************************************)
(* A model of the String Analyzer service (src/server.js): the analyzer,   *)
(* the natural-language query parser, the two list filters and the         *)
(* request handlers over the whole-collection JSON file.                   *)
(*                                                                         *)
(* Strings are sequences of UTF-16 code units.  A code unit is written as  *)
(* a one-character string when it is an ASCII character ("a", " ", "%")    *)
(* and as its four hexadecimal digits otherwise ("D83D", "0130").          *)
(***************************************************************************)
EXTENDS Integers, Sequences, FiniteSets, TLC

VARIABLES
    text,       \* AnalyzeSpec: the value handed to analyzeString
    analysis,   \* AnalyzeSpec: what analyzeString returned for it
    query,      \* ParseSpec: req.query.query of a natural-language request
    interp,     \* ParseSpec: what the handler made of it before loading
    file,       \* the data file (DATA_FILE) as the file system holds it
    reqs,       \* the requests: each handler's position, locals and response
    now         \* the wall clock new Date() reads

vars == <<text, analysis, query, interp, file, reqs, now>>

None == [kind |-> "none"]

(***************************************************************************)
(* Strings.                                                                *)
(***************************************************************************)
\* The sequence of code units of an ASCII string literal.
Chars(s) == [i \in 1..Len(s) |-> SubSeq(s, i, i)]

\* Every string of at most n code units over the alphabet A.
StringsUpTo(A, n) == UNION {[1..k -> A] : k \in 0..n}

UpperLetters == Chars("ABCDEFGHIJKLMNOPQRSTUVWXYZ")
LowerLetters == Chars("abcdefghijklmnopqrstuvwxyz")
Digits == Chars("0123456789")

SeqToSet(s) == {s[i] : i \in 1..Len(s)}

IndexOf(s, c) == CHOOSE i \in 1..Len(s) : s[i] = c

\* A code unit in D800..DBFF / DC00..DFFF.
IsHighSurrogate(c) ==
    Len(c) = 4 /\ SubSeq(c, 1, 1) = "D" /\ SubSeq(c, 2, 2) \in {"8", "9", "A", "B"}
IsLowSurrogate(c) ==
    Len(c) = 4 /\ SubSeq(c, 1, 1) = "D" /\ SubSeq(c, 2, 2) \in {"C", "D", "E", "F"}

(***************************************************************************)
(* Code units and code points as numbers.  A code unit is written as the   *)
(* character itself when that is a printable ASCII character, a tab, a     *)
(* line feed or a carriage return, and as its four hexadecimal digits, in  *)
(* capitals, otherwise.                                                    *)
(***************************************************************************)
HexDigits == Chars("0123456789ABCDEF")
HexLower == Chars("0123456789abcdef")
HexUpperSet == SeqToSet(HexDigits)
HexSet == HexUpperSet \cup SeqToSet(HexLower)
IsHex(c) == c \in HexSet
HexValue(c) ==
    IF c \in HexUpperSet THEN IndexOf(HexDigits, c) - 1 ELSE IndexOf(HexLower, c) - 1

\* The printable ASCII characters, 32..126 (the quotation mark, the
\* backslash and the grave accent by their codes).
Printable ==
    Chars(" !") \o <<"0022">> \o Chars("#$%&'()*+,-./0123456789:;<=>?@")
    \o UpperLetters \o <<"[", "005C", "]", "^", "_", "0060">> \o LowerLetters \o Chars("{|}~")

\* The four hexadecimal digits of a number below 65536.
Hex4(n) ==
    HexDigits[(n \div 4096) + 1] \o HexDigits[((n \div 256) % 16) + 1]
    \o HexDigits[((n \div 16) % 16) + 1] \o HexDigits[(n % 16) + 1]

\* The code unit of an ASCII character code: String.fromCharCode(code).
AsciiUnit(code) ==
    IF code >= 32 /\ code <= 126 THEN Printable[code - 31]
    ELSE IF code = 9 THEN "\t"
    ELSE IF code = 10 THEN "\n"
    ELSE IF code = 13 THEN "\r"
    ELSE Hex4(code)

\* The code unit of a number, and the number of a code unit.
CodeUnit(n) == IF n < 128 THEN AsciiUnit(n) ELSE Hex4(n)
AsciiCodes == [c \in {AsciiUnit(n) : n \in 0..127} |-> CHOOSE n \in 0..127 : AsciiUnit(n) = c]
UnitCode(c) ==
    IF Len(c) = 1 THEN AsciiCodes[c]
    ELSE 4096 * HexValue(SubSeq(c, 1, 1)) + 256 * HexValue(SubSeq(c, 2, 2))
         + 16 * HexValue(SubSeq(c, 3, 3)) + HexValue(SubSeq(c, 4, 4))

\* The code point that starts at place i of s and the one that ends there,
\* with the number of its code units: a high surrogate followed by a low
\* one is one code point, every other code unit is one by itself.
CodePointAt(s, i) ==
    IF i < Len(s) /\ IsHighSurrogate(s[i]) /\ IsLowSurrogate(s[i + 1])
    THEN [cp |-> 65536 + 1024 * (UnitCode(s[i]) - 55296) + (UnitCode(s[i + 1]) - 56320),
          n |-> 2]
    ELSE [cp |-> UnitCode(s[i]), n |-> 1]
CodePointBefore(s, i) ==
    IF i > 1 /\ IsHighSurrogate(s[i - 1]) /\ IsLowSurrogate(s[i])
    THEN [cp |-> 65536 + 1024 * (UnitCode(s[i - 1]) - 55296) + (UnitCode(s[i]) - 56320),
          n |-> 2]
    ELSE [cp |-> UnitCode(s[i]), n |-> 1]

\* The code units of a code point.
UnitsOf(cp) ==
    IF cp < 65536 THEN <<CodeUnit(cp)>>
    ELSE <<CodeUnit(55296 + ((cp - 65536) \div 1024)), CodeUnit(56320 + ((cp - 65536) % 1024))>>

(***************************************************************************)
(* String.prototype.toLowerCase: the lower-case mapping of the Unicode     *)
(* character database, code point by code point.  The tables are those of  *)
(* Unicode 17.0, the version of the ICU of node 20.                        *)
(***************************************************************************)
\* <<first, last, step, d>>: the code points first, first + step, .. last
\* have the lower case that is d code points further.
LowerRanges ==
    <<
       <<65, 90, 1, 32>>, <<192, 214, 1, 32>>, <<216, 222, 1, 32>>, <<256, 302, 2, 1>>,
       <<306, 310, 2, 1>>, <<313, 327, 2, 1>>, <<330, 374, 2, 1>>, <<376, 376, 1, -121>>,
       <<377, 381, 2, 1>>, <<385, 385, 1, 210>>, <<386, 388, 2, 1>>, <<390, 390, 1, 206>>,
       <<391, 391, 1, 1>>, <<393, 394, 1, 205>>, <<395, 395, 1, 1>>, <<398, 398, 1, 79>>,
       <<399, 399, 1, 202>>, <<400, 400, 1, 203>>, <<401, 401, 1, 1>>, <<403, 403, 1, 205>>,
       <<404, 404, 1, 207>>, <<406, 406, 1, 211>>, <<407, 407, 1, 209>>, <<408, 408, 1, 1>>,
       <<412, 412, 1, 211>>, <<413, 413, 1, 213>>, <<415, 415, 1, 214>>, <<416, 420, 2, 1>>,
       <<422, 422, 1, 218>>, <<423, 423, 1, 1>>, <<425, 425, 1, 218>>, <<428, 428, 1, 1>>,
       <<430, 430, 1, 218>>, <<431, 431, 1, 1>>, <<433, 434, 1, 217>>, <<435, 437, 2, 1>>,
       <<439, 439, 1, 219>>, <<440, 440, 1, 1>>, <<444, 444, 1, 1>>, <<452, 452, 1, 2>>,
       <<453, 453, 1, 1>>, <<455, 455, 1, 2>>, <<456, 456, 1, 1>>, <<458, 458, 1, 2>>,
       <<459, 475, 2, 1>>, <<478, 494, 2, 1>>, <<497, 497, 1, 2>>, <<498, 500, 2, 1>>,
       <<502, 502, 1, -97>>, <<503, 503, 1, -56>>, <<504, 542, 2, 1>>, <<544, 544, 1, -130>>,
       <<546, 562, 2, 1>>, <<570, 570, 1, 10795>>, <<571, 571, 1, 1>>, <<573, 573, 1, -163>>,
       <<574, 574, 1, 10792>>, <<577, 577, 1, 1>>, <<579, 579, 1, -195>>, <<580, 580, 1, 69>>,
       <<581, 581, 1, 71>>, <<582, 590, 2, 1>>, <<880, 882, 2, 1>>, <<886, 886, 1, 1>>,
       <<895, 895, 1, 116>>, <<902, 902, 1, 38>>, <<904, 906, 1, 37>>, <<908, 908, 1, 64>>,
       <<910, 911, 1, 63>>, <<913, 929, 1, 32>>, <<931, 939, 1, 32>>, <<975, 975, 1, 8>>,
       <<984, 1006, 2, 1>>, <<1012, 1012, 1, -60>>, <<1015, 1015, 1, 1>>, <<1017, 1017, 1, -7>>,
       <<1018, 1018, 1, 1>>, <<1021, 1023, 1, -130>>, <<1024, 1039, 1, 80>>, <<1040, 1071, 1, 32>>,
       <<1120, 1152, 2, 1>>, <<1162, 1214, 2, 1>>, <<1216, 1216, 1, 15>>, <<1217, 1229, 2, 1>>,
       <<1232, 1326, 2, 1>>, <<1329, 1366, 1, 48>>, <<4256, 4293, 1, 7264>>, <<4295, 4295, 1, 7264>>,
       <<4301, 4301, 1, 7264>>, <<5024, 5103, 1, 38864>>, <<5104, 5109, 1, 8>>, <<7305, 7305, 1, 1>>,
       <<7312, 7354, 1, -3008>>, <<7357, 7359, 1, -3008>>, <<7680, 7828, 2, 1>>, <<7838, 7838, 1, -7615>>,
       <<7840, 7934, 2, 1>>, <<7944, 7951, 1, -8>>, <<7960, 7965, 1, -8>>, <<7976, 7983, 1, -8>>,
       <<7992, 7999, 1, -8>>, <<8008, 8013, 1, -8>>, <<8025, 8031, 2, -8>>, <<8040, 8047, 1, -8>>,
       <<8072, 8079, 1, -8>>, <<8088, 8095, 1, -8>>, <<8104, 8111, 1, -8>>, <<8120, 8121, 1, -8>>,
       <<8122, 8123, 1, -74>>, <<8124, 8124, 1, -9>>, <<8136, 8139, 1, -86>>, <<8140, 8140, 1, -9>>,
       <<8152, 8153, 1, -8>>, <<8154, 8155, 1, -100>>, <<8168, 8169, 1, -8>>, <<8170, 8171, 1, -112>>,
       <<8172, 8172, 1, -7>>, <<8184, 8185, 1, -128>>, <<8186, 8187, 1, -126>>, <<8188, 8188, 1, -9>>,
       <<8486, 8486, 1, -7517>>, <<8490, 8490, 1, -8383>>, <<8491, 8491, 1, -8262>>, <<8498, 8498, 1, 28>>,
       <<8544, 8559, 1, 16>>, <<8579, 8579, 1, 1>>, <<9398, 9423, 1, 26>>, <<11264, 11311, 1, 48>>,
       <<11360, 11360, 1, 1>>, <<11362, 11362, 1, -10743>>, <<11363, 11363, 1, -3814>>, <<11364, 11364, 1, -10727>>,
       <<11367, 11371, 2, 1>>, <<11373, 11373, 1, -10780>>, <<11374, 11374, 1, -10749>>, <<11375, 11375, 1, -10783>>,
       <<11376, 11376, 1, -10782>>, <<11378, 11378, 1, 1>>, <<11381, 11381, 1, 1>>, <<11390, 11391, 1, -10815>>,
       <<11392, 11490, 2, 1>>, <<11499, 11501, 2, 1>>, <<11506, 11506, 1, 1>>, <<42560, 42604, 2, 1>>,
       <<42624, 42650, 2, 1>>, <<42786, 42798, 2, 1>>, <<42802, 42862, 2, 1>>, <<42873, 42875, 2, 1>>,
       <<42877, 42877, 1, -35332>>, <<42878, 42886, 2, 1>>, <<42891, 42891, 1, 1>>, <<42893, 42893, 1, -42280>>,
       <<42896, 42898, 2, 1>>, <<42902, 42920, 2, 1>>, <<42922, 42922, 1, -42308>>, <<42923, 42923, 1, -42319>>,
       <<42924, 42924, 1, -42315>>, <<42925, 42925, 1, -42305>>, <<42926, 42926, 1, -42308>>, <<42928, 42928, 1, -42258>>,
       <<42929, 42929, 1, -42282>>, <<42930, 42930, 1, -42261>>, <<42931, 42931, 1, 928>>, <<42932, 42946, 2, 1>>,
       <<42948, 42948, 1, -48>>, <<42949, 42949, 1, -42307>>, <<42950, 42950, 1, -35384>>, <<42951, 42953, 2, 1>>,
       <<42955, 42955, 1, -42343>>, <<42956, 42970, 2, 1>>, <<42972, 42972, 1, -42561>>, <<42997, 42997, 1, 1>>,
       <<65313, 65338, 1, 32>>, <<66560, 66599, 1, 40>>, <<66736, 66771, 1, 40>>, <<66928, 66938, 1, 39>>,
       <<66940, 66954, 1, 39>>, <<66956, 66962, 1, 39>>, <<66964, 66965, 1, 39>>, <<68736, 68786, 1, 64>>,
       <<68944, 68965, 1, 32>>, <<71840, 71871, 1, 32>>, <<93760, 93791, 1, 32>>, <<93856, 93880, 1, 27>>,
       <<125184, 125217, 1, 34>> >>

\* <<first, last>>: the cased letters that are not case-ignorable, and the
\* case-ignorable code points, which decide the lower case of a capital
\* sigma.
CasedRanges ==
    <<
       <<65, 90>>, <<97, 122>>, <<170, 170>>, <<181, 181>>, <<186, 186>>, <<192, 214>>,
       <<216, 246>>, <<248, 442>>, <<444, 447>>, <<452, 659>>, <<662, 687>>, <<880, 883>>,
       <<886, 887>>, <<891, 893>>, <<895, 895>>, <<902, 902>>, <<904, 906>>, <<908, 908>>,
       <<910, 929>>, <<931, 1013>>, <<1015, 1153>>, <<1162, 1327>>, <<1329, 1366>>, <<1376, 1416>>,
       <<4256, 4293>>, <<4295, 4295>>, <<4301, 4301>>, <<4304, 4346>>, <<4349, 4351>>, <<5024, 5109>>,
       <<5112, 5117>>, <<7296, 7306>>, <<7312, 7354>>, <<7357, 7359>>, <<7424, 7467>>, <<7531, 7543>>,
       <<7545, 7578>>, <<7680, 7957>>, <<7960, 7965>>, <<7968, 8005>>, <<8008, 8013>>, <<8016, 8023>>,
       <<8025, 8025>>, <<8027, 8027>>, <<8029, 8029>>, <<8031, 8061>>, <<8064, 8116>>, <<8118, 8124>>,
       <<8126, 8126>>, <<8130, 8132>>, <<8134, 8140>>, <<8144, 8147>>, <<8150, 8155>>, <<8160, 8172>>,
       <<8178, 8180>>, <<8182, 8188>>, <<8450, 8450>>, <<8455, 8455>>, <<8458, 8467>>, <<8469, 8469>>,
       <<8473, 8477>>, <<8484, 8484>>, <<8486, 8486>>, <<8488, 8488>>, <<8490, 8493>>, <<8495, 8500>>,
       <<8505, 8505>>, <<8508, 8511>>, <<8517, 8521>>, <<8526, 8526>>, <<8544, 8575>>, <<8579, 8580>>,
       <<9398, 9449>>, <<11264, 11387>>, <<11390, 11492>>, <<11499, 11502>>, <<11506, 11507>>, <<11520, 11557>>,
       <<11559, 11559>>, <<11565, 11565>>, <<42560, 42605>>, <<42624, 42651>>, <<42786, 42863>>, <<42865, 42887>>,
       <<42891, 42894>>, <<42896, 42972>>, <<42997, 42998>>, <<43002, 43002>>, <<43824, 43866>>, <<43872, 43880>>,
       <<43888, 43967>>, <<64256, 64262>>, <<64275, 64279>>, <<65313, 65338>>, <<65345, 65370>>, <<66560, 66639>>,
       <<66736, 66771>>, <<66776, 66811>>, <<66928, 66938>>, <<66940, 66954>>, <<66956, 66962>>, <<66964, 66965>>,
       <<66967, 66977>>, <<66979, 66993>>, <<66995, 67001>>, <<67003, 67004>>, <<68736, 68786>>, <<68800, 68850>>,
       <<68944, 68965>>, <<68976, 68997>>, <<71840, 71903>>, <<93760, 93823>>, <<93856, 93880>>, <<93883, 93907>>,
       <<119808, 119892>>, <<119894, 119964>>, <<119966, 119967>>, <<119970, 119970>>, <<119973, 119974>>, <<119977, 119980>>,
       <<119982, 119993>>, <<119995, 119995>>, <<119997, 120003>>, <<120005, 120069>>, <<120071, 120074>>, <<120077, 120084>>,
       <<120086, 120092>>, <<120094, 120121>>, <<120123, 120126>>, <<120128, 120132>>, <<120134, 120134>>, <<120138, 120144>>,
       <<120146, 120485>>, <<120488, 120512>>, <<120514, 120538>>, <<120540, 120570>>, <<120572, 120596>>, <<120598, 120628>>,
       <<120630, 120654>>, <<120656, 120686>>, <<120688, 120712>>, <<120714, 120744>>, <<120746, 120770>>, <<120772, 120779>>,
       <<122624, 122633>>, <<122635, 122654>>, <<122661, 122666>>, <<125184, 125251>>, <<127280, 127305>>, <<127312, 127337>>,
       <<127344, 127369>> >>

CaseIgnorableRanges ==
    <<
       <<39, 39>>, <<46, 46>>, <<58, 58>>, <<94, 94>>, <<96, 96>>, <<168, 168>>,
       <<173, 173>>, <<175, 175>>, <<180, 180>>, <<183, 184>>, <<688, 879>>, <<884, 885>>,
       <<890, 890>>, <<900, 901>>, <<903, 903>>, <<1155, 1161>>, <<1369, 1369>>, <<1375, 1375>>,
       <<1425, 1469>>, <<1471, 1471>>, <<1473, 1474>>, <<1476, 1477>>, <<1479, 1479>>, <<1524, 1524>>,
       <<1536, 1541>>, <<1552, 1562>>, <<1564, 1564>>, <<1600, 1600>>, <<1611, 1631>>, <<1648, 1648>>,
       <<1750, 1757>>, <<1759, 1768>>, <<1770, 1773>>, <<1807, 1807>>, <<1809, 1809>>, <<1840, 1866>>,
       <<1958, 1968>>, <<2027, 2037>>, <<2042, 2042>>, <<2045, 2045>>, <<2070, 2093>>, <<2137, 2139>>,
       <<2184, 2184>>, <<2192, 2193>>, <<2199, 2207>>, <<2249, 2306>>, <<2362, 2362>>, <<2364, 2364>>,
       <<2369, 2376>>, <<2381, 2381>>, <<2385, 2391>>, <<2402, 2403>>, <<2417, 2417>>, <<2433, 2433>>,
       <<2492, 2492>>, <<2497, 2500>>, <<2509, 2509>>, <<2530, 2531>>, <<2558, 2558>>, <<2561, 2562>>,
       <<2620, 2620>>, <<2625, 2626>>, <<2631, 2632>>, <<2635, 2637>>, <<2641, 2641>>, <<2672, 2673>>,
       <<2677, 2677>>, <<2689, 2690>>, <<2748, 2748>>, <<2753, 2757>>, <<2759, 2760>>, <<2765, 2765>>,
       <<2786, 2787>>, <<2810, 2815>>, <<2817, 2817>>, <<2876, 2876>>, <<2879, 2879>>, <<2881, 2884>>,
       <<2893, 2893>>, <<2901, 2902>>, <<2914, 2915>>, <<2946, 2946>>, <<3008, 3008>>, <<3021, 3021>>,
       <<3072, 3072>>, <<3076, 3076>>, <<3132, 3132>>, <<3134, 3136>>, <<3142, 3144>>, <<3146, 3149>>,
       <<3157, 3158>>, <<3170, 3171>>, <<3201, 3201>>, <<3260, 3260>>, <<3263, 3263>>, <<3270, 3270>>,
       <<3276, 3277>>, <<3298, 3299>>, <<3328, 3329>>, <<3387, 3388>>, <<3393, 3396>>, <<3405, 3405>>,
       <<3426, 3427>>, <<3457, 3457>>, <<3530, 3530>>, <<3538, 3540>>, <<3542, 3542>>, <<3633, 3633>>,
       <<3636, 3642>>, <<3654, 3662>>, <<3761, 3761>>, <<3764, 3772>>, <<3782, 3782>>, <<3784, 3790>>,
       <<3864, 3865>>, <<3893, 3893>>, <<3895, 3895>>, <<3897, 3897>>, <<3953, 3966>>, <<3968, 3972>>,
       <<3974, 3975>>, <<3981, 3991>>, <<3993, 4028>>, <<4038, 4038>>, <<4141, 4144>>, <<4146, 4151>>,
       <<4153, 4154>>, <<4157, 4158>>, <<4184, 4185>>, <<4190, 4192>>, <<4209, 4212>>, <<4226, 4226>>,
       <<4229, 4230>>, <<4237, 4237>>, <<4253, 4253>>, <<4348, 4348>>, <<4957, 4959>>, <<5906, 5908>>,
       <<5938, 5939>>, <<5970, 5971>>, <<6002, 6003>>, <<6068, 6069>>, <<6071, 6077>>, <<6086, 6086>>,
       <<6089, 6099>>, <<6103, 6103>>, <<6109, 6109>>, <<6155, 6159>>, <<6211, 6211>>, <<6277, 6278>>,
       <<6313, 6313>>, <<6432, 6434>>, <<6439, 6440>>, <<6450, 6450>>, <<6457, 6459>>, <<6679, 6680>>,
       <<6683, 6683>>, <<6742, 6742>>, <<6744, 6750>>, <<6752, 6752>>, <<6754, 6754>>, <<6757, 6764>>,
       <<6771, 6780>>, <<6783, 6783>>, <<6823, 6823>>, <<6832, 6877>>, <<6880, 6891>>, <<6912, 6915>>,
       <<6964, 6964>>, <<6966, 6970>>, <<6972, 6972>>, <<6978, 6978>>, <<7019, 7027>>, <<7040, 7041>>,
       <<7074, 7077>>, <<7080, 7081>>, <<7083, 7085>>, <<7142, 7142>>, <<7144, 7145>>, <<7149, 7149>>,
       <<7151, 7153>>, <<7212, 7219>>, <<7222, 7223>>, <<7288, 7293>>, <<7376, 7378>>, <<7380, 7392>>,
       <<7394, 7400>>, <<7405, 7405>>, <<7412, 7412>>, <<7416, 7417>>, <<7468, 7530>>, <<7544, 7544>>,
       <<7579, 7679>>, <<8125, 8125>>, <<8127, 8129>>, <<8141, 8143>>, <<8157, 8159>>, <<8173, 8175>>,
       <<8189, 8190>>, <<8203, 8207>>, <<8216, 8217>>, <<8228, 8228>>, <<8231, 8231>>, <<8234, 8238>>,
       <<8288, 8292>>, <<8294, 8303>>, <<8305, 8305>>, <<8319, 8319>>, <<8336, 8348>>, <<8400, 8432>>,
       <<11388, 11389>>, <<11503, 11505>>, <<11631, 11631>>, <<11647, 11647>>, <<11744, 11775>>, <<11823, 11823>>,
       <<12293, 12293>>, <<12330, 12333>>, <<12337, 12341>>, <<12347, 12347>>, <<12441, 12446>>, <<12540, 12542>>,
       <<40981, 40981>>, <<42232, 42237>>, <<42508, 42508>>, <<42607, 42610>>, <<42612, 42621>>, <<42623, 42623>>,
       <<42652, 42655>>, <<42736, 42737>>, <<42752, 42785>>, <<42864, 42864>>, <<42888, 42890>>, <<42993, 42996>>,
       <<43000, 43001>>, <<43010, 43010>>, <<43014, 43014>>, <<43019, 43019>>, <<43045, 43046>>, <<43052, 43052>>,
       <<43204, 43205>>, <<43232, 43249>>, <<43263, 43263>>, <<43302, 43309>>, <<43335, 43345>>, <<43392, 43394>>,
       <<43443, 43443>>, <<43446, 43449>>, <<43452, 43453>>, <<43471, 43471>>, <<43493, 43494>>, <<43561, 43566>>,
       <<43569, 43570>>, <<43573, 43574>>, <<43587, 43587>>, <<43596, 43596>>, <<43632, 43632>>, <<43644, 43644>>,
       <<43696, 43696>>, <<43698, 43700>>, <<43703, 43704>>, <<43710, 43711>>, <<43713, 43713>>, <<43741, 43741>>,
       <<43756, 43757>>, <<43763, 43764>>, <<43766, 43766>>, <<43867, 43871>>, <<43881, 43883>>, <<44005, 44005>>,
       <<44008, 44008>>, <<44013, 44013>>, <<64286, 64286>>, <<64434, 64450>>, <<65024, 65039>>, <<65043, 65043>>,
       <<65056, 65071>>, <<65106, 65106>>, <<65109, 65109>>, <<65279, 65279>>, <<65287, 65287>>, <<65294, 65294>>,
       <<65306, 65306>>, <<65342, 65342>>, <<65344, 65344>>, <<65392, 65392>>, <<65438, 65439>>, <<65507, 65507>>,
       <<65529, 65531>>, <<66045, 66045>>, <<66272, 66272>>, <<66422, 66426>>, <<67456, 67461>>, <<67463, 67504>>,
       <<67506, 67514>>, <<68097, 68099>>, <<68101, 68102>>, <<68108, 68111>>, <<68152, 68154>>, <<68159, 68159>>,
       <<68325, 68326>>, <<68900, 68903>>, <<68942, 68942>>, <<68969, 68973>>, <<68975, 68975>>, <<69291, 69292>>,
       <<69317, 69317>>, <<69370, 69375>>, <<69446, 69456>>, <<69506, 69509>>, <<69633, 69633>>, <<69688, 69702>>,
       <<69744, 69744>>, <<69747, 69748>>, <<69759, 69761>>, <<69811, 69814>>, <<69817, 69818>>, <<69821, 69821>>,
       <<69826, 69826>>, <<69837, 69837>>, <<69888, 69890>>, <<69927, 69931>>, <<69933, 69940>>, <<70003, 70003>>,
       <<70016, 70017>>, <<70070, 70078>>, <<70089, 70092>>, <<70095, 70095>>, <<70191, 70193>>, <<70196, 70196>>,
       <<70198, 70199>>, <<70206, 70206>>, <<70209, 70209>>, <<70367, 70367>>, <<70371, 70378>>, <<70400, 70401>>,
       <<70459, 70460>>, <<70464, 70464>>, <<70502, 70508>>, <<70512, 70516>>, <<70587, 70592>>, <<70606, 70606>>,
       <<70608, 70608>>, <<70610, 70610>>, <<70625, 70626>>, <<70712, 70719>>, <<70722, 70724>>, <<70726, 70726>>,
       <<70750, 70750>>, <<70835, 70840>>, <<70842, 70842>>, <<70847, 70848>>, <<70850, 70851>>, <<71090, 71093>>,
       <<71100, 71101>>, <<71103, 71104>>, <<71132, 71133>>, <<71219, 71226>>, <<71229, 71229>>, <<71231, 71232>>,
       <<71339, 71339>>, <<71341, 71341>>, <<71344, 71349>>, <<71351, 71351>>, <<71453, 71453>>, <<71455, 71455>>,
       <<71458, 71461>>, <<71463, 71467>>, <<71727, 71735>>, <<71737, 71738>>, <<71995, 71996>>, <<71998, 71998>>,
       <<72003, 72003>>, <<72148, 72151>>, <<72154, 72155>>, <<72160, 72160>>, <<72193, 72202>>, <<72243, 72248>>,
       <<72251, 72254>>, <<72263, 72263>>, <<72273, 72278>>, <<72281, 72283>>, <<72330, 72342>>, <<72344, 72345>>,
       <<72544, 72544>>, <<72546, 72548>>, <<72550, 72550>>, <<72752, 72758>>, <<72760, 72765>>, <<72767, 72767>>,
       <<72850, 72871>>, <<72874, 72880>>, <<72882, 72883>>, <<72885, 72886>>, <<73009, 73014>>, <<73018, 73018>>,
       <<73020, 73021>>, <<73023, 73029>>, <<73031, 73031>>, <<73104, 73105>>, <<73109, 73109>>, <<73111, 73111>>,
       <<73177, 73177>>, <<73459, 73460>>, <<73472, 73473>>, <<73526, 73530>>, <<73536, 73536>>, <<73538, 73538>>,
       <<73562, 73562>>, <<78896, 78912>>, <<78919, 78933>>, <<90398, 90409>>, <<90413, 90415>>, <<92912, 92916>>,
       <<92976, 92982>>, <<92992, 92995>>, <<93504, 93506>>, <<93547, 93548>>, <<94031, 94031>>, <<94095, 94111>>,
       <<94176, 94177>>, <<94179, 94180>>, <<94194, 94195>>, <<110576, 110579>>, <<110581, 110587>>, <<110589, 110590>>,
       <<113821, 113822>>, <<113824, 113827>>, <<118528, 118573>>, <<118576, 118598>>, <<119143, 119145>>, <<119155, 119170>>,
       <<119173, 119179>>, <<119210, 119213>>, <<119362, 119364>>, <<121344, 121398>>, <<121403, 121452>>, <<121461, 121461>>,
       <<121476, 121476>>, <<121499, 121503>>, <<121505, 121519>>, <<122880, 122886>>, <<122888, 122904>>, <<122907, 122913>>,
       <<122915, 122916>>, <<122918, 122922>>, <<122928, 122989>>, <<123023, 123023>>, <<123184, 123197>>, <<123566, 123566>>,
       <<123628, 123631>>, <<124139, 124143>>, <<124398, 124399>>, <<124643, 124643>>, <<124646, 124646>>, <<124654, 124655>>,
       <<124661, 124661>>, <<124671, 124671>>, <<125136, 125142>>, <<125252, 125259>>, <<127995, 127999>>, <<917505, 917505>>,
       <<917536, 917631>>, <<917760, 917999>> >>

InRanges(cp, ranges) ==
    \E k \in 1..Len(ranges) : ranges[k][1] <= cp /\ cp <= ranges[k][2]
IsCased(cp) == InRanges(cp, CasedRanges)
IsCaseIgnorable(cp) == InRanges(cp, CaseIgnorableRanges)

\* The lower case of a code point that has one code point as its lower
\* case in every context.
LowerOfCodePoint(cp) ==
    LET hit == {k \in 1..Len(LowerRanges) :
                    /\ LowerRanges[k][1] <= cp /\ cp <= LowerRanges[k][2]
                    /\ (cp - LowerRanges[k][1]) % LowerRanges[k][3] = 0}
    IN  IF hit = {} THEN cp ELSE cp + LowerRanges[CHOOSE k \in hit : TRUE][4]

\* A cased letter, then case-ignorable code points alone, end at place i of
\* s; and case-ignorable code points alone, then a cased letter, start
\* there.
RECURSIVE CasedBefore(_, _)
CasedBefore(s, i) ==
    IF i < 1 THEN FALSE
    ELSE IF IsCaseIgnorable(CodePointBefore(s, i).cp)
    THEN CasedBefore(s, i - CodePointBefore(s, i).n)
    ELSE IsCased(CodePointBefore(s, i).cp)
RECURSIVE CasedAfter(_, _)
CasedAfter(s, i) ==
    IF i > Len(s) THEN FALSE
    ELSE IF IsCaseIgnorable(CodePointAt(s, i).cp)
    THEN CasedAfter(s, i + CodePointAt(s, i).n)
    ELSE IsCased(CodePointAt(s, i).cp)

\* The capital sigma at place i of s ends a word: U+03C2 is its lower case
\* there, U+03C3 elsewhere.
FinalSigma(s, i) == CasedBefore(s, i - 1) /\ ~CasedAfter(s, i + 1)

\* The lower case of the code point cp at place i of s.  U+0130 (capital I
\* with dot above) has a lower case of two code units.
LowerOfCodePointAt(s, i, cp) ==
    IF cp = 304 THEN <<"i", "0307">>
    ELSE IF cp = 931 THEN IF FinalSigma(s, i) THEN <<"03C2">> ELSE <<"03C3">>
    ELSE UnitsOf(LowerOfCodePoint(cp))

\* The lower case of an ASCII character that is written as itself.
AsciiUpperSet == SeqToSet(UpperLetters)
LowerOfAscii(c) ==
    IF c \in AsciiUpperSet THEN <<LowerLetters[IndexOf(UpperLetters, c)]>> ELSE <<c>>

RECURSIVE LowerFrom(_, _)
LowerFrom(s, i) ==
    IF i > Len(s) THEN <<>>
    ELSE IF Len(s[i]) = 1 THEN LowerOfAscii(s[i]) \o LowerFrom(s, i + 1)
    ELSE LowerOfCodePointAt(s, i, CodePointAt(s, i).cp) \o LowerFrom(s, i + CodePointAt(s, i).n)

\* A string of ASCII characters written as themselves has its lower case
\* place by place.
ToLowerCase(s) ==
    IF \A i \in 1..Len(s) : Len(s[i]) = 1
    THEN [i \in 1..Len(s) |-> LowerOfAscii(s[i])[1]]
    ELSE LowerFrom(s, 1)

\* split('').reverse().join(''): the code units in reverse order.
Reverse(s) == [i \in 1..Len(s) |-> s[Len(s) + 1 - i]]

\* White space and line terminators: what \s matches and trim() removes.
WhiteSpace ==
    {"\t", "\n", "000B", "000C", "\r", " ", "00A0", "1680",
     "2000", "2001", "2002", "2003", "2004", "2005", "2006", "2007", "2008", "2009", "200A",
     "2028", "2029", "202F", "205F", "3000", "FEFF"}
IsSpace(c) == c \in WhiteSpace

\* The iteration of for (const ch of value): the string's code points, a
\* high surrogate followed by a low surrogate being one of them.
RECURSIVE CodePoints(_)
CodePoints(s) ==
    IF s = <<>> THEN <<>>
    ELSE IF Len(s) >= 2 /\ IsHighSurrogate(s[1]) /\ IsLowSurrogate(s[2])
         THEN <<SubSeq(s, 1, 2)>> \o CodePoints(SubSeq(s, 3, Len(s)))
         ELSE <<SubSeq(s, 1, 1)>> \o CodePoints(Tail(s))

\* The UTF-8 encoding hash.update(value) digests, as the code points it
\* encodes: an unpaired surrogate is encoded as U+FFFD.
Utf8(s) ==
    LET cps == CodePoints(s)
    IN  [i \in 1..Len(cps) |->
            IF Len(cps[i]) = 1 /\ (IsHighSurrogate(cps[i][1]) \/ IsLowSurrogate(cps[i][1]))
            THEN <<"FFFD">> ELSE cps[i]]

(***************************************************************************)
(* The analyzer.                                                           *)
(***************************************************************************)
\* SHA-256 of the value's UTF-8 bytes.  The digest is the bytes it was
\* computed from, tagged: two values have one digest iff their encodings
\* are equal (collision resistance).
sha256(value) == <<"sha256", Utf8(value)>>

isPalindrome(value) ==
    LET cleaned == ToLowerCase(value)
        rev == Reverse(cleaned)
    IN  cleaned = rev

\* A faulty variant of charFrequencyMap: one key per code unit.
charFrequencyMapByUnit(value) ==
    [ch \in {<<value[i]>> : i \in 1..Len(value)} |->
        Cardinality({i \in 1..Len(value) : <<value[i]>> = ch})]

charFrequencyMap(value) ==
    LET cps == CodePoints(value)
    IN  [ch \in SeqToSet(cps) |-> Cardinality({i \in 1..Len(cps) : cps[i] = ch})]

\* value.trim()
RECURSIVE TrimStart(_)
TrimStart(s) == IF s # <<>> /\ IsSpace(Head(s)) THEN TrimStart(Tail(s)) ELSE s
Trim(s) == Reverse(TrimStart(Reverse(TrimStart(s))))

\* s.split(/\s+/).length: one more than the number of runs of white space.
SplitOnSpaceCount(s) ==
    1 + Cardinality({i \in 1..Len(s) : IsSpace(s[i]) /\ (i = 1 \/ ~IsSpace(s[i - 1]))})

analyzeString(value) ==
    LET len == Len(value)
        is_pal == isPalindrome(value)
        freq == charFrequencyMap(value)
        unique_characters == Cardinality(DOMAIN freq)
        word_count == IF Trim(value) = <<>> THEN 0 ELSE SplitOnSpaceCount(Trim(value))
        hash == sha256(value)
    IN  [length |-> len,
         is_palindrome |-> is_pal,
         unique_characters |-> unique_characters,
         word_count |-> word_count,
         sha256_hash |-> hash,
         character_frequency_map |-> freq]

(***************************************************************************)
(* Matching: String.prototype.includes and the regular expressions of      *)
(* parseNaturalLanguageQuery, by what they match.                          *)
(***************************************************************************)
Min(S) == CHOOSE x \in S : \A y \in S : x <= y

\* lit stands in s at position i.
HasAt(s, i, lit) ==
    /\ i >= 1 /\ i + Len(lit) - 1 <= Len(s)
    /\ lit # <<>> => s[i] = lit[1]
    /\ SubSeq(s, i, i + Len(lit) - 1) = lit

\* s.includes(lit)
Includes(s, lit) == \E i \in 1..(Len(s) + 1) : HasAt(s, i, lit)

\* \d, [a-z0-9] and \w
DigitSet == SeqToSet(Digits)
LowerAlnumSet == SeqToSet(LowerLetters) \cup SeqToSet(Digits)
WordCharSet == LowerAlnumSet \cup SeqToSet(UpperLetters) \cup {"_"}
IsDigit(c) == c \in DigitSet
IsLowerAlnum(c) == c \in LowerAlnumSet
IsWordChar(c) == c \in WordCharSet

\* \b before position i (i = Len(s) + 1: at the end).
WordBoundary(s, i) ==
    (i > 1 /\ i - 1 <= Len(s) /\ IsWordChar(s[i - 1])) # (i >= 1 /\ i <= Len(s) /\ IsWordChar(s[i]))

\* /\blit\b/ matches somewhere in s.
MatchesWord(s, lit) ==
    \E i \in 1..Len(s) :
        WordBoundary(s, i) /\ HasAt(s, i, lit) /\ WordBoundary(s, i + Len(lit))

\* Where a greedy \d+ / \s+ that starts at i ends: the first position from
\* i on that holds no digit / no white space.
RECURSIVE DigitsEnd(_, _)
DigitsEnd(s, i) == IF i > Len(s) \/ ~IsDigit(s[i]) THEN i ELSE DigitsEnd(s, i + 1)
RECURSIVE SpaceEnd(_, _)
SpaceEnd(s, i) == IF i > Len(s) \/ ~IsSpace(s[i]) THEN i ELSE SpaceEnd(s, i + 1)

\* s.match(/lit(\d+)/): the first match's capture, or None.
MatchLitNumber(s, lit) ==
    LET n == Len(lit)
        at == {i \in 1..Len(s) : HasAt(s, i, lit) /\ i + n <= Len(s) /\ IsDigit(s[i + n])}
    IN  IF at = {} THEN None
        ELSE LET i == Min(at)
             IN [kind |-> "match", g1 |-> SubSeq(s, i + n, DigitsEnd(s, i + n) - 1)]

\* /\b(length|long) (\d+)\b/ at position i: the position after the word
\* and its space, or 0. The greedy \d+ must end at a word boundary: giving
\* back digits leaves a digit on both sides, which is none.
LengthSpace == Chars("length ")
LongSpace == Chars("long ")
LenWordAt(s, i) ==
    IF HasAt(s, i, LengthSpace) THEN i + 7
    ELSE IF HasAt(s, i, LongSpace) THEN i + 5
    ELSE 0

LenMatchAt(s, i) ==
    LET d == LenWordAt(s, i)
    IN  /\ WordBoundary(s, i)
        /\ d # 0
        /\ d <= Len(s)
        /\ IsDigit(s[d])
        /\ WordBoundary(s, DigitsEnd(s, d))

\* s.match(/\b(length|long) (\d+)\b/)
LenMatch(s) ==
    LET at == {i \in 1..Len(s) : LenMatchAt(s, i)}
    IN  IF at = {} THEN None
        ELSE LET d == LenWordAt(s, Min(at))
             IN [kind |-> "match", g2 |-> SubSeq(s, d, DigitsEnd(s, d) - 1)]

\* (the\s+letter\s+)?([a-z0-9]) at position k, after the greedy \s+: with
\* the optional group when what follows it is [a-z0-9], else without it.
The == Chars("the")
Letter == Chars("letter")
ContainTail(s, k) ==
    LET k2 == SpaceEnd(s, k + 3)
        k3 == SpaceEnd(s, k2 + 6)
    IN  IF /\ HasAt(s, k, The) /\ k2 > k + 3
           /\ HasAt(s, k2, Letter) /\ k3 > k2 + 6
           /\ k3 <= Len(s) /\ IsLowerAlnum(s[k3])
        THEN <<s[k3]>>
        ELSE IF k <= Len(s) /\ IsLowerAlnum(s[k]) THEN <<s[k]>>
        ELSE <<>>

\* One alternative of (contain|containing|contains) at position i, then
\* \s+(the\s+letter\s+)?([a-z0-9]): the third group, or <<>>.
ContainAlt(s, i, alt) ==
    LET j == i + Len(alt)
        k == SpaceEnd(s, j)
    IN  IF HasAt(s, i, alt) /\ j <= Len(s) /\ k > j THEN ContainTail(s, k) ELSE <<>>

\* The alternatives in the order the expression tries them.
Contain == Chars("contain")
Containing == Chars("containing")
Contains == Chars("contains")
ContainAt(s, i) ==
    IF ContainAlt(s, i, Contain) # <<>> THEN ContainAlt(s, i, Contain)
    ELSE IF ContainAlt(s, i, Containing) # <<>> THEN ContainAlt(s, i, Containing)
    ELSE ContainAlt(s, i, Contains)

\* s.match(/(contain|containing|contains)\s+(the\s+letter\s+)?([a-z0-9])/)
ContainsMatch(s) ==
    LET at == {i \in 1..Len(s) : ContainAt(s, i) # <<>>}
    IN  IF at = {} THEN None
        ELSE [kind |-> "match", g3 |-> ContainAt(s, Min(at))]

\* The value of a run of decimal digits.
(***************************************************************************)
(* Numbers.  A JavaScript number is an IEEE 754 double; the ones of this   *)
(* program are integers or an infinity.  An integer of at most nine        *)
(* decimal digits is [kind |-> "int", val |-> n]; a greater one is         *)
(* [kind |-> "big", neg |-> its sign, digits |-> the decimal digits of its *)
(* magnitude], which is always the exact value of a double; an infinity    *)
(* is [kind |-> "inf", neg |-> its sign].  Equal numbers are equal values. *)
(***************************************************************************)
NumberOfInt(n) == [kind |-> "int", val |-> n]

\* The decimal digits of n >= 0, and the integer of at most nine digits.
RECURSIVE DigitsOfInt(_)
DigitsOfInt(n) == IF n < 10 THEN <<n>> ELSE Append(DigitsOfInt(n \div 10), n % 10)

RECURSIVE IntOfDigits(_)
IntOfDigits(ds) ==
    IF ds = <<>> THEN 0
    ELSE 10 * IntOfDigits(SubSeq(ds, 1, Len(ds) - 1)) + ds[Len(ds)]

StripZeros(ds) ==
    LET nz == {i \in 1..Len(ds) : ds[i] # 0}
    IN  IF nz = {} THEN <<>>
        ELSE SubSeq(ds, CHOOSE i \in nz : \A j \in nz : i <= j, Len(ds))

DigitsLess(a, b) ==
    \/ Len(a) < Len(b)
    \/ /\ Len(a) = Len(b)
       /\ \E i \in 1..Len(a) : a[i] < b[i] /\ \A j \in 1..(i - 1) : a[j] = b[j]

IsOdd(ds) == ds # <<>> /\ ds[Len(ds)] % 2 = 1

\* ds halved: the digit at a place is half of it and of ten more when the
\* digit before it is odd.
HalfDigits(ds) ==
    LET h == [i \in 1..Len(ds) |->
                    ((IF i > 1 /\ ds[i - 1] % 2 = 1 THEN 10 ELSE 0) + ds[i]) \div 2]
    IN  IF h # <<>> /\ h[1] = 0 THEN Tail(h) ELSE h

\* ds doubled: the carry into a place is there when the digit after it is
\* five or more.
DoubleDigits(ds) ==
    LET low == [i \in 1..Len(ds) |->
                    (2 * ds[i] + (IF i < Len(ds) /\ ds[i + 1] >= 5 THEN 1 ELSE 0)) % 10]
    IN  IF ds # <<>> /\ ds[1] >= 5 THEN <<1>> \o low ELSE low

RECURSIVE IncDigits(_)
IncDigits(ds) ==
    IF ds = <<>> THEN <<1>>
    ELSE IF ds[Len(ds)] < 9 THEN [ds EXCEPT ![Len(ds)] = @ + 1]
    ELSE Append(IncDigits(SubSeq(ds, 1, Len(ds) - 1)), 0)

\* ds - 1, for ds >= 1.
RECURSIVE DecDigits(_)
DecDigits(ds) ==
    IF ds[Len(ds)] > 0 THEN StripZeros([ds EXCEPT ![Len(ds)] = @ - 1])
    ELSE Append(DecDigits(SubSeq(ds, 1, Len(ds) - 1)), 9)

Two53 == <<9, 0, 0, 7, 1, 9, 9, 2, 5, 4, 7, 4, 0, 9, 9, 2>>
Two54 == <<1, 8, 0, 1, 4, 3, 9, 8, 5, 0, 9, 4, 8, 1, 9, 8, 4>>

\* ds halved n times (the bits shifted out are dropped), and doubled n
\* times.
RECURSIVE Halve(_, _)
Halve(ds, n) ==
    IF n = 0 THEN ds
    ELSE IF n = 1 THEN HalfDigits(ds)
    ELSE CHOOSE r \in {Halve(x, n - (n \div 2)) : x \in {Halve(ds, n \div 2)}} : TRUE

RECURSIVE Grow(_, _)
Grow(ds, n) ==
    IF n = 0 THEN ds
    ELSE IF n = 1 THEN DoubleDigits(ds)
    ELSE CHOOSE r \in {Grow(x, n - (n \div 2)) : x \in {Grow(ds, n \div 2)}} : TRUE

\* The exponents that a number of len decimal digits, 2^53 or more, can
\* have: 2^(sh + 53) <= 10^len and 10^(len - 1) < 2^(sh + 54).
NonNegative(n) == IF n < 0 THEN 0 ELSE n
Shifts(len) ==
    NonNegative(((len - 1) * 3321) \div 1000 - 53)..NonNegative((len * 3322) \div 1000 - 53)

\* The number of halvings that leave 54 bits of ds >= 2^53.
ShiftOf(ds) ==
    CHOOSE sh \in Shifts(Len(ds)) :
        \E m \in {Halve(ds, sh)} : ~DigitsLess(m, Two53) /\ DigitsLess(m, Two54)

\* The 53 bits and the exponent of a double: infinite from 2^1024 on.
Scaled(mant, ex) ==
    IF ex >= 972 \/ (ex = 971 /\ mant = Two53) THEN [inf |-> TRUE, digits |-> <<>>]
    ELSE [inf |-> FALSE, digits |-> Grow(mant, ex)]

\* The 54 leading bits m of ds, sh bits having been shifted out, rounded
\* to 53: to nearest, and to even when ds is half way.
RoundedUp(ds, sh, m, h) == IsOdd(m) /\ (IsOdd(h) \/ Grow(m, sh) # ds)
Rounded(ds, sh) ==
    CHOOSE r \in {Scaled(IF RoundedUp(ds, sh, m, h) THEN IncDigits(h) ELSE h, sh + 1) :
                      m \in {Halve(ds, sh)}, h \in {Halve(ds, sh + 1)}} : TRUE

\* The double nearest to the integer of the digits ds (no leading zero).
RoundToDouble(ds) ==
    IF Len(ds) > 309 THEN [inf |-> TRUE, digits |-> <<>>]
    ELSE IF DigitsLess(ds, Two53) THEN [inf |-> FALSE, digits |-> ds]
    ELSE CHOOSE r \in {Rounded(ds, sh) : sh \in {ShiftOf(ds)}} : TRUE

NumberOfRounded(neg, r) ==
    IF r.inf THEN [kind |-> "inf", neg |-> neg]
    ELSE [kind |-> "big", neg |-> neg, digits |-> r.digits]

\* The number of sign neg and of magnitude the integer of the digits ds.
NumberOfDigits(neg, ds) ==
    IF Len(ds) <= 9 THEN NumberOfInt(IF neg THEN -IntOfDigits(ds) ELSE IntOfDigits(ds))
    ELSE NumberOfRounded(neg, RoundToDouble(ds))
MakeNumber(neg, ds) == CHOOSE x \in {NumberOfDigits(neg, t) : t \in {StripZeros(ds)}} : TRUE

\* x + k for k = 1 and k = -1, rounded as the addition of doubles is.
NumberPlus(x, k) ==
    IF x.kind = "int"
    THEN MakeNumber(x.val + k < 0, DigitsOfInt(IF x.val + k < 0 THEN -(x.val + k) ELSE x.val + k))
    ELSE IF x.kind = "inf" THEN x
    ELSE MakeNumber(x.neg, IF (k = 1) = x.neg THEN DecDigits(x.digits) ELSE IncDigits(x.digits))

IsNegative(x) == IF x.kind = "int" THEN x.val < 0 ELSE x.neg

\* |a| < |b|, for a and b that are not both of kind "int".
MagnitudeLess(a, b) ==
    IF a.kind = "inf" THEN FALSE
    ELSE IF b.kind = "inf" THEN TRUE
    ELSE IF a.kind = "int" THEN TRUE
    ELSE IF b.kind = "int" THEN FALSE
    ELSE DigitsLess(a.digits, b.digits)

\* a < b.
NumberLess(a, b) ==
    IF a.kind = "int" /\ b.kind = "int" THEN a.val < b.val
    ELSE IF IsNegative(a) # IsNegative(b) THEN IsNegative(a)
    ELSE IF IsNegative(a) THEN MagnitudeLess(b, a)
    ELSE MagnitudeLess(a, b)

\* What JSON.stringify writes for a number: null for an infinity.
Null == [kind |-> "null"]
JsonNumber(x) == IF x.kind = "inf" THEN Null ELSE x

\* The values of the decimal digits ds.
DigitValues(ds) == [i \in 1..Len(ds) |-> IndexOf(Digits, ds[i]) - 1]

\* parseInt(s, 10): leading white space, a sign, then the longest run of
\* digits, as the double nearest to their integer; NaN when there is none.
ParseInt(s) ==
    LET t == TrimStart(s)
        neg == t # <<>> /\ t[1] = "-"
        u == IF t # <<>> /\ t[1] \in {"+", "-"} THEN Tail(t) ELSE t
        ds == SubSeq(u, 1, DigitsEnd(u, 1) - 1)
    IN  IF ds = <<>> THEN [nan |-> TRUE, val |-> NumberOfInt(0)]
        ELSE [nan |-> FALSE, val |-> MakeNumber(neg, DigitValues(ds))]

(***************************************************************************)
(* decodeURIComponent: every escape %XY of an ASCII character is that      *)
(* character, the escapes of the bytes of a UTF-8 sequence are the code    *)
(* point they encode, and anything else that starts with % is a URIError.  *)
(***************************************************************************)
\* The byte of the escape %XY at place i of s, -1 when there is none.
EscapeAt(s, i) ==
    IF i + 2 <= Len(s) /\ s[i] = "%" /\ IsHex(s[i + 1]) /\ IsHex(s[i + 2])
    THEN 16 * HexValue(s[i + 1]) + HexValue(s[i + 2])
    ELSE -1

\* The number of bytes of the UTF-8 sequence that byte b starts, 0 when it
\* starts none.
Utf8Length(b) ==
    IF b >= 0 /\ b <= 127 THEN 1
    ELSE IF b >= 194 /\ b <= 223 THEN 2
    ELSE IF b >= 224 /\ b <= 239 THEN 3
    ELSE IF b >= 240 /\ b <= 244 THEN 4
    ELSE 0

IsContinuation(b) == b >= 128 /\ b <= 191

\* The code point of the n escapes at place i of s, n > 1, -1 when their
\* bytes are not the UTF-8 encoding of a code point (a byte that is no
\* continuation, an encoding longer than needed, a surrogate, a value
\* above U+10FFFF).
Utf8Value(n, b1, b2, b3, b4) ==
    IF n = 2 /\ IsContinuation(b2) THEN 64 * (b1 - 192) + (b2 - 128)
    ELSE IF /\ n = 3 /\ IsContinuation(b2) /\ IsContinuation(b3)
            /\ (b1 = 224 => b2 >= 160) /\ (b1 = 237 => b2 <= 159)
    THEN 4096 * (b1 - 224) + 64 * (b2 - 128) + (b3 - 128)
    ELSE IF /\ n = 4 /\ IsContinuation(b2) /\ IsContinuation(b3) /\ IsContinuation(b4)
            /\ (b1 = 240 => b2 >= 144) /\ (b1 = 244 => b2 <= 143)
    THEN 262144 * (b1 - 240) + 4096 * (b2 - 128) + 64 * (b3 - 128) + (b4 - 128)
    ELSE -1
Utf8CodePoint(s, i, n) ==
    Utf8Value(n, EscapeAt(s, i), EscapeAt(s, i + 3), EscapeAt(s, i + 6), EscapeAt(s, i + 9))

URIError == [kind |-> "throw", message |-> "URI malformed"]

\* units before what the rest of the string has decoded to.
Decoded(units, rest) ==
    IF rest.kind = "ok" THEN [kind |-> "ok", str |-> units \o rest.str] ELSE rest

\* The first place from i on where s holds a "%", Len(s) + 1 when none.
RECURSIVE PercentFrom(_, _)
PercentFrom(s, i) == IF i > Len(s) \/ s[i] = "%" THEN i ELSE PercentFrom(s, i + 1)

\* What stands before the first "%" is copied.
RECURSIVE decodeURIComponent(_)
decodeURIComponent(s) ==
    IF PercentFrom(s, 1) > Len(s) THEN [kind |-> "ok", str |-> s]
    ELSE IF s[1] # "%"
    THEN Decoded(SubSeq(s, 1, PercentFrom(s, 1) - 1),
                 decodeURIComponent(SubSeq(s, PercentFrom(s, 1), Len(s))))
    ELSE IF Utf8Length(EscapeAt(s, 1)) = 0 THEN URIError
    ELSE IF Utf8Length(EscapeAt(s, 1)) = 1
    THEN Decoded(<<AsciiUnit(EscapeAt(s, 1))>>, decodeURIComponent(SubSeq(s, 4, Len(s))))
    ELSE IF Utf8CodePoint(s, 1, Utf8Length(EscapeAt(s, 1))) < 0 THEN URIError
    ELSE Decoded(UnitsOf(Utf8CodePoint(s, 1, Utf8Length(EscapeAt(s, 1)))),
                 decodeURIComponent(SubSeq(s, 3 * Utf8Length(EscapeAt(s, 1)) + 1, Len(s))))

(***************************************************************************)
(* The natural-language interpreter.                                       *)
(***************************************************************************)
\* const parsed = {}; parsed.k = v; parsed.k !== undefined
EmptyObject == [k \in {} |-> 0]

\* A field of req.query: a string, or an array of strings when the
\* parameter is given more than once or with brackets, or an object when
\* it is given with a key in brackets; Absent when it is not given.
Absent == [type |-> "undefined"]
QString(s) == [type |-> "string", str |-> s]
QArray(items) == [type |-> "array", items |-> items]
QObject == [type |-> "object"]

RECURSIVE Join(_)
Join(items) ==
    IF items = <<>> THEN <<>>
    ELSE IF Len(items) = 1 THEN items[1]
    ELSE items[1] \o <<",">> \o Join(Tail(items))

\* The string that parseInt and decodeURIComponent make of their argument.
StringOf(v) ==
    IF v.type = "string" THEN v.str
    ELSE IF v.type = "array" THEN Join(v.items)
    ELSE Chars("[object Object]")
Put(obj, k, v) == [x \in DOMAIN obj \cup {k} |-> IF x = k THEN v ELSE obj[x]]
Has(obj, k) == k \in DOMAIN obj

\* The literals of the patterns.
Palindrom == Chars("palindrom")
Palindromic == Chars("palindromic")
SingleWord == Chars("single word")
OneWord == Chars("1 word")
WordCountOne == Chars("word_count=1")
LongerThan == Chars("longer than ")
ShorterThan == Chars("shorter than ")
FirstVowel == Chars("first vowel")

ApplyPalindrome(txt, parsed) ==
    IF Includes(txt, Palindrom) \/ Includes(txt, Palindromic)
    THEN Put(parsed, "is_palindrome", TRUE) ELSE parsed

\* A faulty variant of ApplyWordCount: the word_count=1 alternative forgotten.
ApplyWordCountTwoForms(txt, parsed) ==
    IF MatchesWord(txt, SingleWord) \/ MatchesWord(txt, OneWord)
    THEN Put(parsed, "word_count", NumberOfInt(1)) ELSE parsed

ApplyWordCount(txt, parsed) ==
    IF \/ MatchesWord(txt, SingleWord)
       \/ MatchesWord(txt, OneWord)
       \/ MatchesWord(txt, WordCountOne)
    THEN Put(parsed, "word_count", NumberOfInt(1)) ELSE parsed

ApplyLonger(txt, parsed) ==
    LET longerMatch == MatchLitNumber(txt, LongerThan)
    IN  IF longerMatch # None
        THEN Put(parsed, "min_length", NumberPlus(ParseInt(longerMatch.g1).val, 1)) ELSE parsed

ApplyShorter(txt, parsed) ==
    LET shorterMatch == MatchLitNumber(txt, ShorterThan)
    IN  IF shorterMatch # None
        THEN Put(parsed, "max_length", NumberPlus(ParseInt(shorterMatch.g1).val, -1)) ELSE parsed

ApplyLength(txt, parsed) ==
    LET lenMatch == LenMatch(txt)
    IN  IF lenMatch # None
        THEN Put(Put(parsed, "min_length", ParseInt(lenMatch.g2).val),
                 "max_length", ParseInt(lenMatch.g2).val)
        ELSE parsed

ApplyContains(txt, parsed) ==
    LET containsMatch == ContainsMatch(txt)
    IN  IF containsMatch # None
        THEN Put(parsed, "contains_character", containsMatch.g3) ELSE parsed

ApplyFirstVowel(txt, parsed) ==
    IF Includes(txt, FirstVowel)
    THEN Put(parsed, "contains_character", Chars("a")) ELSE parsed

\* A faulty variant of ComposeFilters: the exact-length pattern and "first
\* vowel" applied before the patterns they are to overwrite.
ComposeFiltersReordered(txt) ==
    ApplyContains(txt,
        ApplyShorter(txt,
            ApplyLonger(txt,
                ApplyFirstVowel(txt,
                    ApplyLength(txt,
                        ApplyWordCount(txt,
                            ApplyPalindrome(txt, EmptyObject)))))))

\* The patterns in the order of the source, each on the object the one
\* before it left.
ComposeFilters(txt) ==
    ApplyFirstVowel(txt,
        ApplyContains(txt,
            ApplyLength(txt,
                ApplyShorter(txt,
                    ApplyLonger(txt,
                        ApplyWordCount(txt,
                            ApplyPalindrome(txt, EmptyObject)))))))

\* A faulty variant of Conflicting: >= for >.
ConflictingOrEqual(parsed) ==
    Has(parsed, "min_length") /\ Has(parsed, "max_length")
        /\ ~NumberLess(parsed.min_length, parsed.max_length)

Conflicting(parsed) ==
    Has(parsed, "min_length") /\ Has(parsed, "max_length")
        /\ NumberLess(parsed.max_length, parsed.min_length)

\* parseNaturalLanguageQuery from its check of Object.keys(parsed) on.
CheckParsed(parsed) ==
    IF DOMAIN parsed = {}
    THEN [kind |-> "throw", message |-> "Unable to parse natural language query"]
    ELSE IF Conflicting(parsed)
    THEN [kind |-> "throw", code |-> 422,
          message |-> "Query parsed but resulted in conflicting filters"]
    ELSE [kind |-> "ok", parsedFilters |-> parsed]

parseNaturalLanguageQuery(q) ==
    IF q = <<>> THEN [kind |-> "throw", message |-> "empty query"]
    ELSE CheckParsed(ComposeFilters(ToLowerCase(q)))

\* The try/catch around the call of parseNaturalLanguageQuery: what it
\* threw (parsed.kind = "throw") answers 422 when its code is 422 and 400
\* otherwise.
NLParsed(dec, parsed) ==
    IF parsed.kind = "throw"
    THEN IF Has(parsed, "code") /\ parsed.code = 422
         THEN [kind |-> "respond", status |-> 422, error |-> parsed.message,
               decoded |-> dec, parsed |-> parsed]
         ELSE [kind |-> "respond", status |-> 400,
               error |-> "Unable to parse natural language query",
               decoded |-> dec, parsed |-> parsed]
    ELSE [kind |-> "continue", f |-> parsed.parsedFilters, decoded |-> dec, parsed |-> parsed]

\* ... of which decodeURIComponent(q) is the argument: its URIError is
\* caught there too.
NLDecoded(dec) ==
    IF dec.kind = "throw"
    THEN [kind |-> "respond", status |-> 400,
          error |-> "Unable to parse natural language query",
          decoded |-> dec, parsed |-> None]
    ELSE NLParsed(dec, parseNaturalLanguageQuery(dec.str))

\* GET /strings/filter-by-natural-language up to its load of the
\* collection: the response it ends with, or the filters it goes on with.
\* q is req.query.query; an absent parameter is falsy as "" is, an array
\* or an object is not.
NLInterpret(q) ==
    IF q = Absent \/ q = QString(<<>>)
    THEN [kind |-> "respond", status |-> 400, error |-> "query parameter is required",
          decoded |-> None, parsed |-> None]
    ELSE NLDecoded(decodeURIComponent(StringOf(q)))

(***************************************************************************)
(* The list filters.                                                       *)
(***************************************************************************)
\* The callback of results.filter in GET /strings/filter-by-natural-language.
NLKeeps(rec, f) ==
    LET p == rec.properties
    IN  IF Has(f, "is_palindrome") /\ p.is_palindrome # f.is_palindrome THEN FALSE
        ELSE IF Has(f, "min_length") /\ NumberLess(NumberOfInt(p.length), f.min_length) THEN FALSE
        ELSE IF Has(f, "max_length") /\ NumberLess(f.max_length, NumberOfInt(p.length)) THEN FALSE
        ELSE IF Has(f, "word_count") /\ NumberOfInt(p.word_count) # f.word_count THEN FALSE
        ELSE IF Has(f, "contains_character") /\ ~Includes(rec.value, f.contains_character)
        THEN FALSE
        ELSE TRUE

\* A faulty variant of ListKeeps: <= for < on min_length.
ListKeepsStrictMin(rec, filters) ==
    LET p == rec.properties
    IN  IF Has(filters, "is_palindrome") /\ p.is_palindrome # filters.is_palindrome THEN FALSE
        ELSE IF Has(filters, "min_length") /\ ~NumberLess(filters.min_length, NumberOfInt(p.length)) THEN FALSE
        ELSE IF Has(filters, "max_length") /\ NumberLess(filters.max_length, NumberOfInt(p.length)) THEN FALSE
        ELSE IF Has(filters, "word_count") /\ NumberOfInt(p.word_count) # filters.word_count THEN FALSE
        ELSE IF Has(filters, "contains_character")
                /\ ~Includes(rec.value, filters.contains_character)
        THEN FALSE
        ELSE TRUE

\* The callback of results.filter in GET /strings.
ListKeeps(rec, filters) ==
    LET p == rec.properties
    IN  IF Has(filters, "is_palindrome") /\ p.is_palindrome # filters.is_palindrome THEN FALSE
        ELSE IF Has(filters, "min_length") /\ NumberLess(NumberOfInt(p.length), filters.min_length) THEN FALSE
        ELSE IF Has(filters, "max_length") /\ NumberLess(filters.max_length, NumberOfInt(p.length)) THEN FALSE
        ELSE IF Has(filters, "word_count") /\ NumberOfInt(p.word_count) # filters.word_count THEN FALSE
        ELSE IF Has(filters, "contains_character")
                /\ ~Includes(rec.value, filters.contains_character)
        THEN FALSE
        ELSE TRUE

\* GET /strings up to its load of the collection: req.query's fields,
\* each checked in turn, into filters; the first malformed one answers 400.
BadCriteria(msg) == [kind |-> "respond", status |-> 400, error |-> msg]

\* What the catch of the handler answers.
CaughtError == [kind |-> "respond", status |-> 500, error |-> "Internal server error"]

CriteriaContains(qry, filters) ==
    IF ~Has(qry, "contains_character") THEN [kind |-> "continue", f |-> filters]
    ELSE IF qry.contains_character.type # "string" \/ Len(qry.contains_character.str) # 1
    THEN BadCriteria("contains_character must be a single character string")
    ELSE [kind |-> "continue",
          f |-> Put(filters, "contains_character", qry.contains_character.str)]

CriteriaWordCount(qry, filters) ==
    IF ~Has(qry, "word_count") THEN CriteriaContains(qry, filters)
    ELSE IF ParseInt(StringOf(qry.word_count)).nan
    THEN BadCriteria("word_count must be integer")
    ELSE CriteriaContains(qry, Put(filters, "word_count",
                                   ParseInt(StringOf(qry.word_count)).val))

CriteriaMax(qry, filters) ==
    IF ~Has(qry, "max_length") THEN CriteriaWordCount(qry, filters)
    ELSE IF ParseInt(StringOf(qry.max_length)).nan
    THEN BadCriteria("max_length must be integer")
    ELSE CriteriaWordCount(qry, Put(filters, "max_length",
                                    ParseInt(StringOf(qry.max_length)).val))

CriteriaMin(qry, filters) ==
    IF ~Has(qry, "min_length") THEN CriteriaMax(qry, filters)
    ELSE IF ParseInt(StringOf(qry.min_length)).nan
    THEN BadCriteria("min_length must be integer")
    ELSE CriteriaMax(qry, Put(filters, "min_length",
                              ParseInt(StringOf(qry.min_length)).val))

\* is_palindrome.toLowerCase is no function when the field is no string:
\* the TypeError is caught by the handler.
ListCriteria(qry) ==
    IF ~Has(qry, "is_palindrome") THEN CriteriaMin(qry, EmptyObject)
    ELSE IF qry.is_palindrome.type # "string" THEN CaughtError
    ELSE IF ToLowerCase(qry.is_palindrome.str) \notin {Chars("true"), Chars("false")}
    THEN BadCriteria("is_palindrome must be true or false")
    ELSE CriteriaMin(qry, Put(EmptyObject, "is_palindrome",
                              ToLowerCase(qry.is_palindrome.str) = Chars("true")))

\* The filters as res.json writes them.
JsonFilters(f) ==
    [k \in DOMAIN f |->
        IF k \in {"min_length", "max_length", "word_count"} THEN JsonNumber(f[k]) ELSE f[k]]

(***************************************************************************)
(* The data file and the request handlers.  A handler runs from one await  *)
(* to the next in one step, and each file operation is a step of its own:  *)
(* pc names the operation a handler waits for, or the one that has settled *)
(* and whose continuation has yet to run.                                  *)
(***************************************************************************)
MaxReqs == 2
MaxTime == 1
Slots == 1..MaxReqs

IdleReq ==
    [op |-> "none", pc |-> "idle", input |-> None, id |-> None, props |-> None,
     f |-> EmptyObject, read |-> None, db |-> <<>>, content |-> <<>>, status |-> 0,
     body |-> None]

Respond(rq, status, body) == [rq EXCEPT !.pc = "done", !.status = status, !.body = body]

InternalError(rq) == Respond(rq, 500, [error |-> "Internal server error"])

\* What a call of readDB starts with: fs.readFile is pending.
CallReadDB(rq) == [rq EXCEPT !.pc = "readFile"]

\* What Express answers when a middleware throws: its own error page.
UncaughtError(rq, message) == Respond(rq, 500, [html |-> message])

\* requireValueField, then app.post('/strings') up to its await of readDB.
\* body is req.body: without a value field, with one that is no string,
\* or with a string; and with a field of its own named hasOwnProperty or
\* without.  Such a field is no function: the call of it in
\* requireValueField throws a TypeError that nothing there catches.
StartCreate(body) ==
    LET rq == [IdleReq EXCEPT !.op = "create", !.input = body]
    IN  IF body.shadowed
        THEN UncaughtError(rq, "TypeError: req.body.hasOwnProperty is not a function")
        ELSE IF ~body.has
        THEN Respond(rq, 400, [error |-> "Invalid request body or missing \"value\" field"])
        ELSE IF body.type # "string"
        THEN Respond(rq, 422, [error |-> "Invalid data type for \"value\" (must be string)"])
        ELSE LET props == analyzeString(body.value)
             IN  CallReadDB([rq EXCEPT !.input = body.value, !.props = props,
                                       !.id = props.sha256_hash])

\* app.get('/strings/:value') and app.delete('/strings/:value') up to their
\* await of readDB. param is req.params.value, the path segment as the
\* router has decoded it.
StartByValue(op, param) ==
    LET rq == [IdleReq EXCEPT !.op = op, !.input = param]
        rawValue == decodeURIComponent(param)
    IN  IF rawValue.kind = "throw" THEN InternalError(rq)
        ELSE CallReadDB([rq EXCEPT !.id = sha256(rawValue.str)])

\* Both list handlers after their criteria: the response to a request
\* that has none, or the await of readDB.
AfterCriteria(rq, c) ==
    IF c.kind = "respond" THEN Respond(rq, c.status, [error |-> c.error])
    ELSE CallReadDB([rq EXCEPT !.f = c.f])

\* app.get('/strings') up to its await of readDB.
StartList(qry) == AfterCriteria([IdleReq EXCEPT !.op = "list", !.input = qry], ListCriteria(qry))

\* app.get('/strings/filter-by-natural-language') up to its await of readDB.
StartNL(q) == AfterCriteria([IdleReq EXCEPT !.op = "nl", !.input = q], NLInterpret(q))

\* A GET of /strings/<param>.  The route /strings/filter-by-natural-language
\* is registered before /strings/:value: that path is answered by the
\* natural-language handler, here without its query parameter.
RouteGet(param) ==
    IF param = Chars("filter-by-natural-language")
    THEN [StartNL(Absent) EXCEPT !.input = param]
    ELSE StartByValue("lookup", param)

\* A faulty variant of Exists: the duplicate check never finds the record.
ExistsNever(db, id) == FALSE

\* db.strings.find(s => s.id === id), as a truth value
Exists(db, id) == \E i \in 1..Len(db) : db[i].id = id

\* db.strings.find(s => s.id === id), when there is one
Find(db, id) == db[Min({i \in 1..Len(db) : db[i].id = id})]

\* db.strings.findIndex(s => s.id === id): from 0, -1 when there is none
FindIndex(db, id) ==
    IF \E i \in 1..Len(db) : db[i].id = id
    THEN Min({i \in 1..Len(db) : db[i].id = id}) - 1
    ELSE -1

\* db.strings.splice(idx, 1)
Splice(db, idx) == SubSeq(db, 1, idx) \o SubSeq(db, idx + 2, Len(db))

\* A handler from the return of readDB with db.strings = db to its next
\* await or its response; t is what new Date() reads.
AfterLoad(rq, db, t) ==
    CASE rq.op = "create" ->
            IF Exists(db, rq.id)
            THEN Respond(rq, 409, [error |-> "String already exists in the system"])
            ELSE LET record == [id |-> rq.id, value |-> rq.input, properties |-> rq.props,
                                created_at |-> t]
                 IN  [rq EXCEPT !.pc = "open", !.content = Append(db, record), !.body = record]
      [] rq.op = "lookup" ->
            IF ~Exists(db, rq.id)
            THEN Respond(rq, 404, [error |-> "String does not exist in the system"])
            ELSE Respond(rq, 200, Find(db, rq.id))
      [] rq.op = "delete" ->
            LET idx == FindIndex(db, rq.id)
            IN  IF idx = -1
                THEN Respond(rq, 404, [error |-> "String does not exist in the system"])
                ELSE [rq EXCEPT !.pc = "open", !.content = Splice(db, idx)]
      [] rq.op = "list" ->
            LET results == SelectSeq(db, LAMBDA rec : ListKeeps(rec, rq.f))
            IN  Respond(rq, 200, [data |-> results, count |-> Len(results),
                                  filters_applied |-> JsonFilters(rq.f)])
      [] rq.op = "nl" ->
            LET results == SelectSeq(db, LAMBDA rec : NLKeeps(rec, rq.f))
            IN  Respond(rq, 200, [data |-> results, count |-> Len(results),
                                  interpreted_query |->
                                      [original |-> rq.input, parsed_filters |-> JsonFilters(rq.f)]])

\* const db = await readDB(): the handler holds what readDB returned.
Loaded(rq, db, t) == AfterLoad([rq EXCEPT !.db = db], db, t)

\* A handler from the return of its writeDB(db) to its response.
Written(rq) ==
    IF rq.op = "create" THEN Respond(rq, 201, rq.body) ELSE Respond(rq, 204, None)

\* What the file may hold after fs.writeFile has written content at offset
\* 0 of what it holds now.  On the file this call's open truncated that is
\* content.  When another call has written since, the bytes past content's
\* end stay: the file holds content, or bytes that JSON.parse rejects.
Overlay(held, content) ==
    IF held.kind = "empty" THEN {[kind |-> "ok", strings |-> content]}
    ELSE {[kind |-> "ok", strings |-> content], [kind |-> "garbled"]}

\* The times new Date() may read in a step of request rq.
Clock(rq) == IF rq.op = "create" THEN now..MaxTime ELSE {now}

\* fs.readFile reads the file: what it finds is what its promise will
\* settle with.
ReadFile(r) ==
    /\ reqs[r].pc = "readFile"
    /\ reqs' = [reqs EXCEPT ![r] = [@ EXCEPT !.pc = "readDone", !.read = file]]
    /\ UNCHANGED <<text, analysis, query, interp, file, now>>

\* readDB from the settling of fs.readFile on, and the handler when readDB
\* returns: the parsed collection goes to the handler; ENOENT starts
\* writeDB({ strings: [] }); bytes that JSON.parse rejects are thrown on to
\* the handler's catch.
AfterRead(rq, t) ==
    CASE rq.read.kind = "ok" -> Loaded([rq EXCEPT !.read = None], rq.read.strings, t)
      [] rq.read.kind = "missing" -> [rq EXCEPT !.pc = "initOpen", !.read = None]
      [] OTHER -> InternalError([rq EXCEPT !.read = None])

\* The continuation of await fs.readFile runs.
ReadReturn(r) ==
    /\ reqs[r].pc = "readDone"
    /\ \E t \in Clock(reqs[r]) :
        /\ reqs' = [reqs EXCEPT ![r] = AfterRead(@, t)]
        /\ now' = IF reqs[r].read.kind = "ok" THEN t ELSE now
    /\ UNCHANGED <<text, analysis, query, interp, file>>

\* fs.writeFile of writeDB({ strings: [] }) opens the file with flag 'w':
\* it is created, or truncated.
InitOpen(r) ==
    /\ reqs[r].pc = "initOpen"
    /\ file' = [kind |-> "empty"]
    /\ reqs' = [reqs EXCEPT ![r].pc = "initWrite"]
    /\ UNCHANGED <<text, analysis, query, interp, now>>

\* ... and writes the empty collection.
InitWrite(r) ==
    /\ reqs[r].pc = "initWrite"
    /\ file' \in Overlay(file, <<>>)
    /\ reqs' = [reqs EXCEPT ![r].pc = "initDone"]
    /\ UNCHANGED <<text, analysis, query, interp, now>>

\* The continuation of await writeDB({ strings: [] }) runs: readDB returns
\* { strings: [] } to the handler.
InitReturn(r) ==
    /\ reqs[r].pc = "initDone"
    /\ \E t \in Clock(reqs[r]) :
        /\ reqs' = [reqs EXCEPT ![r] = Loaded(@, <<>>, t)]
        /\ now' = t
    /\ UNCHANGED <<text, analysis, query, interp, file>>

\* fs.writeFile of the handler's writeDB(db) opens the file with flag 'w'.
WriteOpen(r) ==
    /\ reqs[r].pc = "open"
    /\ file' = [kind |-> "empty"]
    /\ reqs' = [reqs EXCEPT ![r].pc = "write"]
    /\ UNCHANGED <<text, analysis, query, interp, now>>

\* ... and writes db.
WriteData(r) ==
    /\ reqs[r].pc = "write"
    /\ file' \in Overlay(file, reqs[r].content)
    /\ reqs' = [reqs EXCEPT ![r].pc = "written"]
    /\ UNCHANGED <<text, analysis, query, interp, now>>

\* The continuation of await writeDB(db) runs: the handler responds.
WriteReturn(r) ==
    /\ reqs[r].pc = "written"
    /\ reqs' = [reqs EXCEPT ![r] = Written(@)]
    /\ UNCHANGED <<text, analysis, query, interp, file, now>>

\* The file operations and the continuations of request r.
Step(r) ==
    \/ ReadFile(r)
    \/ ReadReturn(r)
    \/ InitOpen(r)
    \/ InitWrite(r)
    \/ InitReturn(r)
    \/ WriteOpen(r)
    \/ WriteData(r)
    \/ WriteReturn(r)

(***************************************************************************)
(* The requests the specifications send.                                   *)
(***************************************************************************)
Values == {Chars("Aba"), Chars("a z"), Chars("%"), <<>>}
NoValueBody == [has |-> FALSE, type |-> "undefined", value |-> <<>>, shadowed |-> FALSE]
NumberBody == [has |-> TRUE, type |-> "number", value |-> <<>>, shadowed |-> FALSE]
StringBody(v) == [has |-> TRUE, type |-> "string", value |-> v, shadowed |-> FALSE]
ShadowedBody(v) == [has |-> TRUE, type |-> "string", value |-> v, shadowed |-> TRUE]

StoreInit ==
    /\ file = [kind |-> "missing"]
    /\ reqs = [r \in Slots |-> IdleReq]
    /\ now = 0
    /\ text = <<>>
    /\ analysis = None
    /\ query = <<>>
    /\ interp = None

Unused == UNCHANGED <<text, analysis, query, interp, file, now>>

(***************************************************************************)
(* Spec: up to MaxReqs requests, each in a slot of its own, interleaved at *)
(* their awaits and at their file operations.  ServeSpec: any number of    *)
(* requests, at most MaxReqs of them at a time.                            *)
(***************************************************************************)
ConcValues == {Chars("Aba"), Chars("%")}
ConcBodies == {StringBody(v) : v \in ConcValues} \cup {ShadowedBody(Chars("Aba"))}

\* The next request takes the first free slot.
Free(r) == reqs[r].pc = "idle" /\ \A s \in Slots : s < r => reqs[s].pc # "idle"

ReceiveCreate(r) ==
    /\ Free(r)
    /\ \E body \in ConcBodies : reqs' = [reqs EXCEPT ![r] = StartCreate(body)]
    /\ Unused

ReceiveLookup(r) ==
    /\ Free(r)
    /\ \E param \in ConcValues : reqs' = [reqs EXCEPT ![r] = RouteGet(param)]
    /\ Unused

ReceiveDelete(r) ==
    /\ Free(r)
    /\ \E param \in ConcValues : reqs' = [reqs EXCEPT ![r] = StartByValue("delete", param)]
    /\ Unused

ReceiveList(r) ==
    /\ Free(r)
    /\ reqs' = [reqs EXCEPT ![r] = StartList(EmptyObject)]
    /\ Unused

ReceiveNL(r) ==
    /\ Free(r)
    /\ reqs' = [reqs EXCEPT ![r] = StartNL(QString(Chars("palindromic")))]
    /\ Unused

Next ==
    \E r \in Slots :
        \/ ReceiveCreate(r)
        \/ ReceiveLookup(r)
        \/ ReceiveDelete(r)
        \/ ReceiveList(r)
        \/ ReceiveNL(r)
        \/ Step(r)

Spec == StoreInit /\ [][Next]_vars

\* The response of request r has been sent: the handler's frame is gone,
\* and the slot is free for a later request.
Forget(r) ==
    /\ reqs[r].pc = "done"
    /\ reqs' = [reqs EXCEPT ![r] = IdleReq]
    /\ Unused

ServeNext ==
    \/ Next
    \/ \E r \in Slots : Forget(r)

ServeSpec == StoreInit /\ [][ServeNext]_vars

(***************************************************************************)
(* SeqSpec: one request at a time, each sent when the one before it has    *)
(* been answered.                                                          *)
(***************************************************************************)
Bodies ==
    {NoValueBody, NumberBody, ShadowedBody(Chars("Aba"))} \cup {StringBody(v) : v \in Values}

\* The path segments of GET and DELETE /strings/:value: the stored values
\* that a path segment can be, the escapes of "%" and of U+00C9, and the
\* path of the natural-language route.
Params ==
    (Values \ {<<>>})
        \cup {Chars("%25"), Chars("%C3%89"), Chars("filter-by-natural-language")}

\* req.query of GET /strings, of the parameters that are given.
GiveIf(obj, k, v) == IF v = Absent THEN obj ELSE Put(obj, k, v)
QueryOf(pal, mn, mx, wc, cc) ==
    GiveIf(GiveIf(GiveIf(GiveIf(GiveIf(EmptyObject,
        "is_palindrome", pal), "min_length", mn), "max_length", mx),
        "word_count", wc), "contains_character", cc)
Queries ==
    {QueryOf(pal, mn, mx, wc, cc) :
        pal \in {Absent, QString(Chars("TRUE")), QString(Chars("false")),
                 QString(Chars("yes")), QArray(<<Chars("true")>>)},
        mn \in {Absent, QString(Chars("1")), QString(Chars("3")), QString(Chars(" 3x")),
                QString(Chars("two"))},
        mx \in {Absent, QString(Chars("2")), QArray(<<Chars("3"), Chars("1")>>)},
        wc \in {Absent, QString(Chars("1"))},
        cc \in {Absent, QString(Chars("a")), QString(Chars("zz")), QArray(<<Chars("a")>>)}}

ListPhrases ==
    {QString(Chars("all single word palindromic strings")),
     QString(Chars("strings longer than 1 characters")),
     QString(Chars("length 3")), QString(Chars("strings containing the letter z")),
     QString(Chars("first vowel")), QString(Chars("longer than 5 and shorter than 2")),
     QString(Chars("everything")),
     QArray(<<Chars("strings shorter than 9007199254740993"), Chars("palindromic")>>)}

\* No request is being handled.
Quiet == \A s \in Slots : reqs[s].pc = "idle"

\* The response has been sent: the handler's frame is gone.
Complete ==
    /\ reqs[1].pc = "done"
    /\ reqs' = [reqs EXCEPT ![1] = IdleReq]
    /\ Unused

SeqCreate ==
    /\ Quiet
    /\ \E body \in Bodies : reqs' = [reqs EXCEPT ![1] = StartCreate(body)]
    /\ Unused

SeqLookup ==
    /\ Quiet
    /\ \E param \in Params : reqs' = [reqs EXCEPT ![1] = RouteGet(param)]
    /\ Unused

SeqDelete ==
    /\ Quiet
    /\ \E param \in Params : reqs' = [reqs EXCEPT ![1] = StartByValue("delete", param)]
    /\ Unused

SeqList ==
    /\ Quiet
    /\ \E qry \in Queries : reqs' = [reqs EXCEPT ![1] = StartList(qry)]
    /\ Unused

SeqNL ==
    /\ Quiet
    /\ \E q \in ListPhrases : reqs' = [reqs EXCEPT ![1] = StartNL(q)]
    /\ Unused

SeqNext ==
    \/ SeqCreate
    \/ SeqLookup
    \/ SeqDelete
    \/ SeqList
    \/ SeqNL
    \/ Complete
    \/ \E r \in Slots : Step(r)

SeqSpec == StoreInit /\ [][SeqNext]_vars

(***************************************************************************)
(* AnalyzeSpec: analyzeString applied to every value of at most MaxLen     *)
(* code units over AnalyzeAlphabet.                                        *)
(***************************************************************************)
MaxLen == 3
AnalyzeAlphabet ==
    {"a", "A", "b", " ", "D83D", "DE00", "0130", "00C9", "00E9", "03A3", "2003"}

AnalyzeInit ==
    /\ text \in StringsUpTo(AnalyzeAlphabet, MaxLen)
    /\ analysis = None
    /\ query = <<>>
    /\ interp = None
    /\ file = [kind |-> "missing"]
    /\ reqs = <<>>
    /\ now = 0

Analyze ==
    /\ analysis = None
    /\ analysis' = analyzeString(text)
    /\ UNCHANGED <<text, query, interp, file, reqs, now>>

AnalyzeNext == Analyze

AnalyzeSpec == AnalyzeInit /\ [][AnalyzeNext]_vars

(***************************************************************************)
(* ParseSpec: the natural-language handler's interpretation of every       *)
(* phrase made of at most MaxFrags of the Fragments.                       *)
(***************************************************************************)
MaxFrags == 3
Fragments ==
    {Chars("palindrom"), Chars("single word"), Chars("1 word"), Chars("word_count=1"),
     Chars("longer than 5"), Chars("shorter than 2"), Chars("length 3"), Chars("Long 4%C3%89"),
     Chars("containing letter "), Chars("contains%E2%80%83the letter z"), Chars("first vowel"),
     Chars(" "), Chars("x"), Chars("9007199254740993"), Chars("%")}

RECURSIVE PhrasesUpTo(_)
PhrasesUpTo(n) ==
    IF n = 0 THEN {<<>>}
    ELSE LET P == PhrasesUpTo(n - 1) IN P \cup {p \o fr : p \in P, fr \in Fragments}

ParseInit ==
    /\ query \in PhrasesUpTo(MaxFrags)
    /\ interp = None
    /\ text = <<>>
    /\ analysis = None
    /\ file = [kind |-> "missing"]
    /\ reqs = <<>>
    /\ now = 0

Interpret ==
    /\ interp = None
    /\ interp' = NLInterpret(QString(query))
    /\ UNCHANGED <<text, analysis, query, file, reqs, now>>

ParseNext == Interpret

ParseSpec == ParseInit /\ [][ParseNext]_vars

(***************************************************************************)
(* The claims.                                                             *)
(***************************************************************************)
IsCreate(rq) == rq.op = "create" /\ rq.pc = "done"
Ids(strings) == {strings[i].id : i \in 1..Len(strings)}
ValuesOf(strings) == {strings[i].value : i \in 1..Len(strings)}

\* C1: in every state of the data file that holds a collection, under
\* every interleaving of the handlers at their awaits, no two records have
\* the same id and every record's id is the fingerprint of its value.
C1_UniqueIds ==
    file.kind = "ok" =>
        /\ \A i, j \in 1..Len(file.strings) :
                file.strings[i].id = file.strings[j].id => i = j
        /\ \A i \in 1..Len(file.strings) :
                file.strings[i].id = sha256(file.strings[i].value)

\* Two creates of one value have raced on a collection that an earlier
\* request had written, both were answered 201, and the file holds the
\* collection they wrote.
C1_Witness ==
    /\ file.kind = "ok"
    /\ Len(file.strings) >= 2
    /\ \E r1, r2 \in Slots :
        /\ r1 # r2
        /\ IsCreate(reqs[r1]) /\ reqs[r1].status = 201
        /\ IsCreate(reqs[r2]) /\ reqs[r2].status = 201
        /\ reqs[r1].id = reqs[r2].id
        /\ reqs[r1].id \in Ids(file.strings)

\* C2: in a run of one request at a time the store is a set S of values.
\* create(v) is answered 201 iff v is not in S, and then adds v to the
\* collection it loaded, else 409 and the collection is as it was;
\* delete(v) is answered 204 iff v is in S, and then removes v's record
\* alone, else 404; lookup(v) is answered 200 with v's record and the
\* properties of v iff v is in S, else 404.
C2_SetSemantics ==
    \A r \in Slots :
        LET rq == reqs[r]
            S == ValuesOf(rq.db)
        IN  /\ (IsCreate(rq) /\ rq.props # None) =>
                /\ rq.status \in {201, 409}
                /\ rq.status = 201 <=> rq.input \notin S
                /\ rq.status = 201 =>
                        /\ file = [kind |-> "ok", strings |-> Append(rq.db, rq.body)]
                        /\ rq.body.value = rq.input
                /\ rq.status = 409 => file = [kind |-> "ok", strings |-> rq.db]
            /\ (rq.op = "delete" /\ rq.pc = "done") =>
                /\ rq.status \in {204, 404}
                /\ rq.status = 204 <=> rq.input \in S
                /\ rq.status = 204 =>
                        file = [kind |-> "ok",
                                strings |-> SelectSeq(rq.db, LAMBDA rec : rec.value # rq.input)]
                /\ rq.status = 404 => file = [kind |-> "ok", strings |-> rq.db]
            /\ (rq.op = "lookup" /\ rq.pc = "done") =>
                /\ rq.status \in {200, 404}
                /\ rq.status = 200 <=> rq.input \in S
                /\ rq.status = 200 =>
                        /\ rq.body.value = rq.input
                        /\ rq.body.properties = analyzeString(rq.input)
                        /\ \E i \in 1..Len(rq.db) : rq.db[i] = rq.body

\* C3: every interleaving is equal to some order of the requests one after
\* the other.  In every such order a create answered 201 whose value no
\* delete answered 204 has removed is in the final collection, and a
\* delete answered 204 whose value no create answered 201 has added has
\* left none of it.
C3_NoConfirmedWriteLost ==
    ((\A r \in Slots : reqs[r].pc \in {"idle", "done"}) /\ file.kind = "ok") =>
        \A r \in Slots :
            /\ (IsCreate(reqs[r]) /\ reqs[r].status = 201
                    /\ ~\E d \in Slots : reqs[d].op = "delete" /\ reqs[d].status = 204
                                            /\ reqs[d].id = reqs[r].id)
                => reqs[r].id \in Ids(file.strings)
            /\ (reqs[r].op = "delete" /\ reqs[r].status = 204
                    /\ ~\E c \in Slots : IsCreate(reqs[c]) /\ reqs[c].status = 201
                                            /\ reqs[c].id = reqs[r].id)
                => reqs[r].id \notin Ids(file.strings)

\* The conjunction of the criteria that are present, on the record's value.
Satisfies(rec, f) ==
    /\ Has(f, "is_palindrome") =>
            (f.is_palindrome <=> ToLowerCase(rec.value) = Reverse(ToLowerCase(rec.value)))
    /\ Has(f, "min_length") => ~NumberLess(NumberOfInt(Len(rec.value)), f.min_length)
    /\ Has(f, "max_length") => ~NumberLess(f.max_length, NumberOfInt(Len(rec.value)))
    /\ Has(f, "word_count") => NumberOfInt(analyzeString(rec.value).word_count) = f.word_count
    /\ Has(f, "contains_character") =>
            \E i \in 1..Len(rec.value) : <<rec.value[i]>> = f.contains_character

IsListed(rq) == rq.op \in {"list", "nl"} /\ rq.pc = "done" /\ rq.status = 200

\* C4: a list request answered 200, structured or natural-language,
\* returns exactly the stored records, in stored order, that satisfy every
\* criterion present (all of them when none is), and the other path's
\* filter returns the same records for the same criteria.
C4_ListReturnsMatches ==
    \A r \in Slots :
        IsListed(reqs[r]) =>
            /\ file.kind = "ok"
            /\ reqs[r].body.data =
                    SelectSeq(file.strings, LAMBDA rec : Satisfies(rec, reqs[r].f))
            /\ reqs[r].body.count = Len(reqs[r].body.data)
            /\ reqs[r].f = EmptyObject => reqs[r].body.data = file.strings
            /\ reqs[r].op = "list" =>
                    reqs[r].body.data =
                        SelectSeq(file.strings, LAMBDA rec : NLKeeps(rec, reqs[r].f))
            /\ reqs[r].op = "nl" =>
                    reqs[r].body.data =
                        SelectSeq(file.strings, LAMBDA rec : ListKeeps(rec, reqs[r].f))

\* A structured list with a length bound and a second criterion has kept
\* some of the stored records and dropped others.
C4_Witness ==
    \E r \in Slots :
        /\ IsListed(reqs[r]) /\ reqs[r].op = "list"
        /\ Has(reqs[r].f, "min_length")
        /\ Cardinality(DOMAIN reqs[r].f) >= 2
        /\ reqs[r].body.count >= 1
        /\ file.kind = "ok" /\ reqs[r].body.count < Len(file.strings)

IsConflict(res) == res.kind = "throw" /\ Has(res, "code") /\ res.code = 422
IsUnparseable(res) ==
    res.kind = "throw" /\ ~Has(res, "code")
        /\ res.message = "Unable to parse natural language query"

\* parseNaturalLanguageQuery was called, on interp.decoded.str.
Interpreted == interp # None /\ interp.parsed # None

\* C5: parseNaturalLanguageQuery fails with ConflictingFilters exactly
\* when the composed min_length and max_length are both set and
\* min_length > max_length, the filters it returns have min_length <=
\* max_length, and the handler answers 422 for that failure alone and 400
\* for Unparseable.
C5_ConflictExactly ==
    Interpreted =>
        LET composed == ComposeFilters(ToLowerCase(interp.decoded.str))
        IN  /\ IsConflict(interp.parsed) <=>
                    /\ Has(composed, "min_length") /\ Has(composed, "max_length")
                    /\ NumberLess(composed.max_length, composed.min_length)
            /\ (/\ interp.parsed.kind = "ok"
                /\ Has(interp.parsed.parsedFilters, "min_length")
                /\ Has(interp.parsed.parsedFilters, "max_length"))
                => ~NumberLess(interp.parsed.parsedFilters.max_length,
                               interp.parsed.parsedFilters.min_length)
            /\ IsConflict(interp.parsed) <=> (interp.kind = "respond" /\ interp.status = 422)
            /\ IsUnparseable(interp.parsed) => (interp.kind = "respond" /\ interp.status = 400)

\* A phrase with "longer than" and "shorter than" bounds that cross has
\* been answered 422.
C5_Witness ==
    /\ Interpreted
    /\ interp.kind = "respond"
    /\ interp.status = 422
    /\ Includes(ToLowerCase(query), Chars("shorter than 2"))

\* The seven patterns as the specification lists them: the second between
\* word boundaries, the fifth, "length <N>" or "long <N>", wherever it
\* stands.
SevenPatterns(txt) ==
    \/ Includes(txt, Palindrom)
    \/ MatchesWord(txt, SingleWord) \/ MatchesWord(txt, OneWord)
    \/ MatchLitNumber(txt, LongerThan) # None
    \/ MatchLitNumber(txt, ShorterThan) # None
    \/ MatchLitNumber(txt, LengthSpace) # None \/ MatchLitNumber(txt, LongSpace) # None
    \/ ContainsMatch(txt) # None
    \/ Includes(txt, FirstVowel)

\* "length <N>" or "long <N>" between word boundaries: the word starts the
\* phrase or follows a character that is no letter, digit or underscore,
\* and the digits end the phrase or are followed by such a character.
WholeWordLength(txt) ==
    \E i \in 1..Len(txt) :
        /\ i = 1 \/ ~IsWordChar(txt[i - 1])
        /\ \E word \in {LengthSpace, LongSpace} :
            /\ HasAt(txt, i, word)
            /\ i + Len(word) <= Len(txt)
            /\ IsDigit(txt[i + Len(word)])
            /\ \/ DigitsEnd(txt, i + Len(word)) > Len(txt)
               \/ ~IsWordChar(txt[DigitsEnd(txt, i + Len(word))])

\* C6 as stated: parseNaturalLanguageQuery fails with Unparseable iff
\* none of the seven patterns of the specification matches the phrase.
C6_SevenPatterns ==
    Interpreted =>
        (IsUnparseable(interp.parsed) <=> ~SevenPatterns(ToLowerCase(interp.decoded.str)))

\* C6 as amended: parseNaturalLanguageQuery fails with Unparseable iff
\* none of the patterns 1 to 4, 6 and 7 matches the phrase, no "length <N>"
\* or "long <N>" stands in it between word boundaries, and no
\* "word_count=1" does.
C6_EightPatterns ==
    Interpreted =>
        LET txt == ToLowerCase(interp.decoded.str)
        IN  IsUnparseable(interp.parsed) <=>
                ~(\/ Includes(txt, Palindrom)
                  \/ MatchesWord(txt, SingleWord) \/ MatchesWord(txt, OneWord)
                  \/ MatchLitNumber(txt, LongerThan) # None
                  \/ MatchLitNumber(txt, ShorterThan) # None
                  \/ WholeWordLength(txt)
                  \/ ContainsMatch(txt) # None
                  \/ Includes(txt, FirstVowel)
                  \/ MatchesWord(txt, WordCountOne))

\* The phrase "length 3x", which holds "length <N>" but not between word
\* boundaries, has been found unparseable.
C6_Witness ==
    /\ Interpreted
    /\ query = Chars("length 3x")
    /\ IsUnparseable(interp.parsed)

\* C8: "containing letter X" is interpreted with contains_character = X,
\* for every alphanumeric X.
C8_ContainingLetter ==
    \A X \in LowerAlnumSet :
        (interp # None /\ query = Chars("containing letter ") \o <<X>>) =>
            /\ interp.kind = "continue"
            /\ interp.f = [contains_character |-> <<X>>]

\* The number of the first "length N" in txt, at a word boundary or not.
LengthMention(txt) == MatchLitNumber(txt, LengthSpace)

\* C9 as stated: a phrase that contains "longer than M" and "length N" is
\* interpreted with min_length = max_length = N.
C9_LengthOverwrites ==
    (/\ Interpreted
     /\ MatchLitNumber(ToLowerCase(interp.decoded.str), LongerThan) # None
     /\ LengthMention(ToLowerCase(interp.decoded.str)) # None) =>
        /\ interp.kind = "continue"
        /\ Has(interp.f, "min_length") /\ Has(interp.f, "max_length")
        /\ interp.f.min_length = interp.f.max_length
        /\ \E i \in 1..Len(interp.decoded.str) :
                LET from == SubSeq(ToLowerCase(interp.decoded.str), i, Len(interp.decoded.str))
                IN  /\ HasAt(from, 1, LengthSpace)
                    /\ LengthMention(from) # None
                    /\ ParseInt(LengthMention(from).g1).val = interp.f.min_length

\* C9 as amended: a phrase in which "length N" or "long N" stands between
\* word boundaries is interpreted with min_length = max_length = N, N the
\* number of the first such place as parseInt reads it (the double nearest
\* to it), whatever "longer than" and "shorter than" it holds, and is
\* never a conflict; a phrase in which none stands so is interpreted, when
\* it is, with the min_length of its "longer than" and the max_length of
\* its "shorter than" alone; and a phrase that holds "first vowel" is
\* interpreted, when it is, with contains_character = "a".
C9_WholeWordLengthOverwrites ==
    Interpreted =>
        LET txt == ToLowerCase(interp.decoded.str)
            longer == MatchLitNumber(txt, LongerThan)
            shorter == MatchLitNumber(txt, ShorterThan)
        IN  /\ LenMatch(txt) # None =>
                /\ interp.kind = "continue"
                /\ Has(interp.f, "min_length") /\ Has(interp.f, "max_length")
                /\ interp.f.min_length = ParseInt(LenMatch(txt).g2).val
                /\ interp.f.max_length = ParseInt(LenMatch(txt).g2).val
            /\ (~WholeWordLength(txt) /\ interp.kind = "continue") =>
                /\ Has(interp.f, "min_length") <=> longer # None
                /\ Has(interp.f, "min_length") =>
                        interp.f.min_length = NumberPlus(ParseInt(longer.g1).val, 1)
                /\ Has(interp.f, "max_length") <=> shorter # None
                /\ Has(interp.f, "max_length") =>
                        interp.f.max_length = NumberPlus(ParseInt(shorter.g1).val, -1)
            /\ (Includes(txt, FirstVowel) /\ interp.kind = "continue") =>
                /\ Has(interp.f, "contains_character")
                /\ interp.f.contains_character = Chars("a")

\* A phrase with "longer than 5" and a whole-word "length 3" has been
\* interpreted.
C9_Witness ==
    /\ Interpreted
    /\ Includes(query, Chars("longer than 5"))
    /\ LenMatch(ToLowerCase(query)) # None
    /\ interp.kind = "continue"
    /\ interp.f.min_length = NumberOfInt(3)

RECURSIVE SumOver(_, _)
SumOver(f, keys) ==
    IF keys = {} THEN 0
    ELSE LET k == CHOOSE x \in keys : TRUE IN f[k] + SumOver(f, keys \ {k})

PalindromeByUnits(value) ==
    LET low == ToLowerCase(value)
    IN  \A i \in 1..Len(low) : low[i] = low[Len(low) + 1 - i]

\* C10 as stated: character_frequency has one entry per distinct code
\* unit of the value with its number of occurrences, the counts sum to
\* length, unique_characters is the number of distinct code units, and
\* is_palindrome is true iff the lower-cased value is its own reverse, code
\* unit by code unit.
C10_CodeUnits ==
    analysis # None =>
        /\ DOMAIN analysis.character_frequency_map = {<<text[i]>> : i \in 1..Len(text)}
        /\ \A i \in 1..Len(text) :
                analysis.character_frequency_map[<<text[i]>>]
                    = Cardinality({j \in 1..Len(text) : text[j] = text[i]})
        /\ SumOver(analysis.character_frequency_map,
                   DOMAIN analysis.character_frequency_map) = analysis.length
        /\ analysis.unique_characters = Cardinality({text[i] : i \in 1..Len(text)})
        /\ analysis.is_palindrome <=> PalindromeByUnits(text)

\* Where a code point of value starts: every place but the low half of a
\* surrogate pair.
StartsCodePoint(value, i) ==
    ~(i > 1 /\ IsLowSurrogate(value[i]) /\ IsHighSurrogate(value[i - 1]))

\* C10 as amended: length is the number of code units and is_palindrome
\* is true iff the lower-cased value is its own reverse code unit by code
\* unit, while character_frequency has one entry per distinct code point
\* (a surrogate pair is one, an unpaired surrogate is one) with its number
\* of occurrences, the counts sum to the number of code points, which is
\* length when the value holds no surrogate pair, and unique_characters is
\* the number of distinct code points.
C10_CodePoints ==
    analysis # None =>
        LET starts == {i \in 1..Len(text) : StartsCodePoint(text, i)}
            At(i) == IF i < Len(text) /\ ~StartsCodePoint(text, i + 1)
                     THEN SubSeq(text, i, i + 1) ELSE SubSeq(text, i, i)
            freq == analysis.character_frequency_map
        IN  /\ analysis.length = Len(text)
            /\ analysis.is_palindrome <=> PalindromeByUnits(text)
            /\ DOMAIN freq = {At(i) : i \in starts}
            /\ \A i \in starts : freq[At(i)] = Cardinality({j \in starts : At(j) = At(i)})
            /\ SumOver(freq, DOMAIN freq) = Cardinality(starts)
            /\ starts = 1..Len(text) => SumOver(freq, DOMAIN freq) = analysis.length
            /\ analysis.unique_characters = Cardinality({At(i) : i \in starts})

\* A value with a surrogate pair and a second occurrence of its high half
\* has been analyzed.
C10_Witness ==
    /\ analysis # None
    /\ text = <<"D83D", "D83D", "DE00">>

\* C7: a list request that is answered with records was given criteria
\* with min_length <= max_length when both are present.
C7_CriteriaInvariant ==
    \A r \in Slots :
        IsListed(reqs[r]) =>
            ((Has(reqs[r].f, "min_length") /\ Has(reqs[r].f, "max_length"))
                => ~NumberLess(reqs[r].f.max_length, reqs[r].f.min_length))

=============================================================================
